---- MODULE Spec2Model ----
(***************************************************************************)
(* Model of the ComfyUI metadata extractor: the PNG chunk walk (parsePNG)  *)
(* and the graph resolver (extractPrompts, resolveInput).                  *)
(*                                                                         *)
(* JavaScript values are tagged records [t, v]; a string is a TLA+ string; *)
(* an object is the sequence of its <<key, value>> pairs in Object.keys    *)
(* order; a file is a sequence of bytes 0..255.                            *)
(***************************************************************************)
EXTENDS Integers, Sequences, FiniteSets, TLC

VARIABLES
    pc,          \* position in parsePNG / extractPrompts
    input,       \* how the input was assembled (never read by the program)
    buffer,      \* file.arrayBuffer(): sequence of bytes
    offset,      \* parsePNG: chunk cursor
    foundText,   \* parsePNG: texts of the qualifying chunks, file order
    rawJson,     \* parsePNG: the selected text
    data,        \* extractPrompts: the (unwrapped) value worked on
    nodesMap,    \* extractPrompts: id -> node, as a JS object
    isApiFormat, \* extractPrompts: classification
    samplers,    \* extractPrompts: filtered sampler nodes
    si,          \* extractPrompts: index of the next sampler to trace
    stack,       \* the activations of resolveInput, outermost first
    phase,       \* which call of the sampler loop is running
    pos,         \* the sampler loop's pos
    result,      \* extractPrompts: [positive, negative, all]
    maxDepth,    \* deepest resolveInput nesting seen so far
    maxRead,     \* highest buffer index read so far (0-based), -1 if none
    walked,      \* number of chunk headers the walk has read
    caller,      \* who called extractPrompts: "none", "parsePNG" or "parseMP4"
    outcome,     \* what the call produced: [kind, error, value]
    mp4,         \* parseMP4: the text scanned, the candidates and the results kept
    projects,    \* App: the projects state, an array of [id, parentId, isOpen]
    activeProjectId, \* App: the activeProjectId state
    store,       \* the 'projects' object store of the database
    calls,       \* App: the handler calls that wait on the database
    uuids        \* number of ids uuidv4 has given out

\* The state of the parsers and the state of the App component
parser == <<pc, input, buffer, offset, foundText, rawJson, data, nodesMap,
            isApiFormat, samplers, si, stack, phase, pos, result, maxDepth, maxRead,
            walked, caller, outcome, mp4>>

app == <<projects, activeProjectId, store, calls, uuids>>

vars == <<parser, app>>

\* No App is mounted
NoApp ==
    /\ projects = <<>>
    /\ activeProjectId = ""
    /\ store = {}
    /\ calls = {}
    /\ uuids = 0

-----------------------------------------------------------------------------
(* Bounds of the model *)

\* JavaScript call-stack capacity, in resolveInput frames: one more nested
\* call raises RangeError (Maximum call stack size exceeded).
StackLimit == 6

-----------------------------------------------------------------------------
(* Strings *)

Ch(s, i) == IF i >= 1 /\ i <= Len(s) THEN SubSeq(s, i, i) ELSE ""

\* String.prototype.includes
Includes(s, sub) ==
    \E i \in 1..(Len(s) - Len(sub) + 1) : SubSeq(s, i, i + Len(sub) - 1) = sub

\* String.prototype.startsWith
StartsWith(s, pre) == Len(s) >= Len(pre) /\ SubSeq(s, 1, Len(pre)) = pre

\* String.prototype.endsWith
EndsWith(s, suf) ==
    Len(s) >= Len(suf) /\ SubSeq(s, Len(s) - Len(suf) + 1, Len(s)) = suf

UpperAlpha == "ABCDEFGHIJKLMNOPQRSTUVWXYZ"
LowerAlpha == "abcdefghijklmnopqrstuvwxyz"

LowerCh(c) ==
    IF \E k \in 1..26 : Ch(UpperAlpha, k) = c
    THEN Ch(LowerAlpha, CHOOSE k \in 1..26 : Ch(UpperAlpha, k) = c)
    ELSE c

RECURSIVE LowerFrom(_, _)
LowerFrom(s, i) == IF i > Len(s) THEN "" ELSE LowerCh(Ch(s, i)) \o LowerFrom(s, i + 1)

\* String.prototype.toLowerCase
ToLowerCase(s) == LowerFrom(s, 1)

\* The control characters a TLA+ string can hold; "\f" also stands for the
\* other C0 controls (NUL, SOH, ...), which are not white space.
CtrlChars == {"\t", "\n", "\r", "\f"}

\* White space stripped by String.prototype.trim
WhiteSpace == {" ", "\t", "\n", "\r"}

RECURSIVE TrimStart(_)
TrimStart(s) ==
    IF Len(s) > 0 /\ Ch(s, 1) \in WhiteSpace THEN TrimStart(SubSeq(s, 2, Len(s))) ELSE s

RECURSIVE TrimEnd(_)
TrimEnd(s) ==
    IF Len(s) > 0 /\ Ch(s, Len(s)) \in WhiteSpace
    THEN TrimEnd(SubSeq(s, 1, Len(s) - 1)) ELSE s

\* String.prototype.trim
Trim(s) == TrimEnd(TrimStart(s))

Digits == "0123456789"
IsDigit(c) == \E k \in 1..10 : Ch(Digits, k) = c
DigitVal(c) == (CHOOSE k \in 1..10 : Ch(Digits, k) = c) - 1

RECURSIVE NatOf(_, _)
NatOf(s, acc) ==
    IF s = "" THEN acc ELSE NatOf(SubSeq(s, 2, Len(s)), acc * 10 + DigitVal(Ch(s, 1)))

RECURSIVE StrOfNat(_)
StrOfNat(n) ==
    IF n < 10 THEN Ch(Digits, n + 1) ELSE StrOfNat(n \div 10) \o Ch(Digits, (n % 10) + 1)

\* An array-index property name ("0", "7", "12"): such keys come first, in
\* ascending order, in the property order of a JavaScript object.
IsIndexKey(k) ==
    /\ Len(k) >= 1 /\ Len(k) <= 9
    /\ \A i \in 1..Len(k) : IsDigit(Ch(k, i))
    /\ (Len(k) > 1 => Ch(k, 1) # "0")

-----------------------------------------------------------------------------
(* JavaScript values *)

JUndef == [t |-> "undef"]
JNull == [t |-> "null"]
JBool(b) == [t |-> "bool", v |-> b]
JNum(n) == [t |-> "num", v |-> n]
JStr(s) == [t |-> "str", v |-> s]
JArr(elems) == [t |-> "arr", v |-> elems]
JObj(pairs) == [t |-> "obj", v |-> pairs]

IsStr(x) == x.t = "str"
IsArr(x) == x.t = "arr"

\* ToBoolean
Truthy(x) ==
    CASE x.t = "undef" -> FALSE
      [] x.t = "null" -> FALSE
      [] x.t = "bool" -> x.v
      [] x.t = "num" -> x.v # 0
      [] x.t = "str" -> x.v # ""
      [] OTHER -> TRUE

\* typeof x === 'object'
TypeofObject(x) == x.t \in {"obj", "arr", "null"}

\* Property definition on an object in JavaScript property order: an existing
\* key keeps its place, index keys stay first in ascending order, other keys
\* are appended.
ObjSet(pairs, k, val) ==
    IF \E i \in 1..Len(pairs) : pairs[i][1] = k
    THEN [i \in 1..Len(pairs) |-> IF pairs[i][1] = k THEN <<k, val>> ELSE pairs[i]]
    ELSE IF IsIndexKey(k)
         THEN LET before == {i \in 1..Len(pairs) :
                                IsIndexKey(pairs[i][1]) /\ NatOf(pairs[i][1], 0) < NatOf(k, 0)}
                  n == Cardinality(before)
              IN  SubSeq(pairs, 1, n) \o <<<<k, val>>>> \o SubSeq(pairs, n + 1, Len(pairs))
         ELSE Append(pairs, <<k, val>>)

RECURSIVE ObjFrom(_, _)
ObjFrom(pairs, acc) ==
    IF pairs = <<>> THEN acc
    ELSE ObjFrom(Tail(pairs), ObjSet(acc, Head(pairs)[1], Head(pairs)[2]))

\* The object a literal { k1: v1, k2: v2, ... } evaluates to
Obj(pairs) == JObj(ObjFrom(pairs, <<>>))

\* x[k] for a string key k; x is neither null nor undefined
Get(x, k) ==
    CASE x.t = "obj" ->
            IF \E i \in 1..Len(x.v) : x.v[i][1] = k
            THEN x.v[CHOOSE i \in 1..Len(x.v) : x.v[i][1] = k][2]
            ELSE JUndef
      [] x.t = "arr" ->
            IF k = "length" THEN JNum(Len(x.v))
            ELSE IF IsIndexKey(k) /\ NatOf(k, 0) < Len(x.v) THEN x.v[NatOf(k, 0) + 1]
            ELSE JUndef
      [] x.t = "str" ->
            IF k = "length" THEN JNum(Len(x.v))
            ELSE IF IsIndexKey(k) /\ NatOf(k, 0) < Len(x.v) THEN JStr(Ch(x.v, NatOf(k, 0) + 1))
            ELSE JUndef
      [] OTHER -> JUndef

\* Object.keys(x); x is neither null nor undefined
ObjectKeys(x) ==
    CASE x.t = "obj" -> [i \in 1..Len(x.v) |-> x.v[i][1]]
      [] x.t = "arr" -> [i \in 1..Len(x.v) |-> StrOfNat(i - 1)]
      [] x.t = "str" -> [i \in 1..Len(x.v) |-> StrOfNat(i - 1)]
      [] OTHER -> <<>>

\* Object.values(x); x is neither null nor undefined
ObjectValues(x) ==
    CASE x.t = "obj" -> [i \in 1..Len(x.v) |-> x.v[i][2]]
      [] x.t = "arr" -> x.v
      [] x.t = "str" -> [i \in 1..Len(x.v) |-> JStr(Ch(x.v, i))]
      [] OTHER -> <<>>

RECURSIVE JoinKeys(_)
\* ToPropertyKey(x): the string a value is converted to when used as a key
ToPropertyKey(x) ==
    CASE x.t = "str" -> x.v
      [] x.t = "num" -> IF x.v < 0 THEN "-" \o StrOfNat(0 - x.v) ELSE StrOfNat(x.v)
      [] x.t = "bool" -> IF x.v THEN "true" ELSE "false"
      [] x.t = "null" -> "null"
      [] x.t = "undef" -> "undefined"
      [] x.t = "arr" -> JoinKeys(x.v)
      [] OTHER -> "[object Object]"

\* Array.prototype.join(","): null and undefined elements give ""
JoinKeys(elems) ==
    IF elems = <<>> THEN ""
    ELSE LET h == IF Head(elems).t \in {"null", "undef"} THEN "" ELSE ToPropertyKey(Head(elems))
         IN  IF Len(elems) = 1 THEN h ELSE h \o "," \o JoinKeys(Tail(elems))

-----------------------------------------------------------------------------
(* JSON.parse: objects, arrays, strings, integers, true, false, null *)

JsonFail == [ok |-> FALSE, v |-> JUndef, i |-> 0]
JsonOk(val, next) == [ok |-> TRUE, v |-> val, i |-> next]

\* The first index from i on that holds no whitespace
SkipWs(s, i) ==
    IF i > Len(s) THEN i
    ELSE CHOOSE j \in i..(Len(s) + 1) :
             /\ Ch(s, j) \notin WhiteSpace
             /\ \A k \in i..(j - 1) : Ch(s, k) \in WhiteSpace

\* Is the character at j escaped: an odd run of backslashes from i on precedes it
Escaped(s, i, j) ==
    Cardinality({k \in i..(j - 1) : \A n \in k..(j - 1) : Ch(s, n) = "\\"}) % 2 = 1

ClosesString(s, i, j) == Ch(s, j) = "\"" /\ ~Escaped(s, i, j)

\* The text of a string literal with its escapes replaced; ok = FALSE for an
\* escape JSON does not have
RECURSIVE Unescape(_, _, _)
Unescape(raw, i, acc) ==
    LET c == Ch(raw, i)
        e == Ch(raw, i + 1)
    IN  CASE c = "" -> [ok |-> TRUE, v |-> acc]
          [] c = "\\" ->
                CASE e = "\"" -> Unescape(raw, i + 2, acc \o "\"")
                  [] e = "\\" -> Unescape(raw, i + 2, acc \o "\\")
                  [] e = "/" -> Unescape(raw, i + 2, acc \o "/")
                  [] e = "n" -> Unescape(raw, i + 2, acc \o "\n")
                  [] e = "r" -> Unescape(raw, i + 2, acc \o "\r")
                  [] e = "t" -> Unescape(raw, i + 2, acc \o "\t")
                  [] e = "f" -> Unescape(raw, i + 2, acc \o "\f")
                  [] OTHER -> [ok |-> FALSE, v |-> ""]
          [] OTHER -> Unescape(raw, i + 1, acc \o c)

\* The string literal with the characters raw, closed at j
StringOf(raw, j, u) ==
    IF \E k \in 1..Len(raw) : Ch(raw, k) \in CtrlChars THEN JsonFail
    ELSE IF ~\E k \in 1..Len(raw) : Ch(raw, k) = "\\" THEN JsonOk(JStr(raw), j + 1)
    ELSE IF u.ok THEN JsonOk(JStr(u.v), j + 1) ELSE JsonFail

StringTo(s, i, j) == StringOf(SubSeq(s, i, j - 1), j, Unescape(SubSeq(s, i, j - 1), 1, ""))

\* The string literal whose opening quote is at i - 1
ScanString(s, i) ==
    IF ~\E j \in i..Len(s) : ClosesString(s, i, j) THEN JsonFail
    ELSE StringTo(s, i, CHOOSE j \in i..Len(s) :
                            ClosesString(s, i, j) /\ \A k \in i..(j - 1) : ~ClosesString(s, i, k))

\* The first index from i on that holds no digit
ScanDigits(s, i) ==
    IF i > Len(s) THEN i
    ELSE CHOOSE j \in i..(Len(s) + 1) :
             ~IsDigit(Ch(s, j)) /\ \A k \in i..(j - 1) : IsDigit(Ch(s, k))

\* The integer with digits d0..d1-1; fractions and exponents are not modelled
NumberOf(s, neg, d0, d1) ==
    IF d1 = d0 \/ (d1 > d0 + 1 /\ Ch(s, d0) = "0") \/ Ch(s, d1) \in {".", "e", "E"}
    THEN JsonFail
    ELSE JsonOk(JNum(IF neg THEN 0 - NatOf(SubSeq(s, d0, d1 - 1), 0)
                            ELSE NatOf(SubSeq(s, d0, d1 - 1), 0)), d1)

ScanNumber(s, i) ==
    IF Ch(s, i) = "-" THEN NumberOf(s, TRUE, i + 1, ScanDigits(s, i + 1))
    ELSE NumberOf(s, FALSE, i, ScanDigits(s, i))

RECURSIVE ScanValue(_, _), ScanMembers(_, _, _), ScanElements(_, _, _)

\* After a member's value e: a comma and the next member, or the closing brace
MemberNext(s, n, acc) ==
    CASE Ch(s, n) = "," -> ScanMembers(s, SkipWs(s, n + 1), acc)
      [] Ch(s, n) = "}" -> JsonOk(JObj(acc), n + 1)
      [] OTHER -> JsonFail

MemberValue(s, k, e, acc) ==
    IF ~e.ok THEN JsonFail ELSE MemberNext(s, SkipWs(s, e.i), ObjSet(acc, k.v.v, e.v))

MemberColon(s, k, j, acc) ==
    IF Ch(s, j) # ":" THEN JsonFail ELSE MemberValue(s, k, ScanValue(s, j + 1), acc)

MemberKey(s, k, acc) ==
    IF ~k.ok THEN JsonFail ELSE MemberColon(s, k, SkipWs(s, k.i), acc)

\* The members of an object from the key at i on
ScanMembers(s, i, acc) ==
    IF Ch(s, i) # "\"" THEN JsonFail ELSE MemberKey(s, ScanString(s, i + 1), acc)

ElementNext(s, n, acc) ==
    CASE Ch(s, n) = "," -> ScanElements(s, n + 1, acc)
      [] Ch(s, n) = "]" -> JsonOk(JArr(acc), n + 1)
      [] OTHER -> JsonFail

ElementValue(s, e, acc) ==
    IF ~e.ok THEN JsonFail ELSE ElementNext(s, SkipWs(s, e.i), Append(acc, e.v))

\* The elements of an array from i on
ScanElements(s, i, acc) == ElementValue(s, ScanValue(s, i), acc)

ObjectAt(s, j) ==
    IF Ch(s, j) = "}" THEN JsonOk(JObj(<<>>), j + 1) ELSE ScanMembers(s, j, <<>>)

ArrayAt(s, j) ==
    IF Ch(s, j) = "]" THEN JsonOk(JArr(<<>>), j + 1) ELSE ScanElements(s, j, <<>>)

Literal(s, i, word, val) ==
    IF i + Len(word) - 1 <= Len(s) /\ SubSeq(s, i, i + Len(word) - 1) = word
    THEN JsonOk(val, i + Len(word)) ELSE JsonFail

ValueAt(s, i) ==
    CASE Ch(s, i) = "{" -> ObjectAt(s, SkipWs(s, i + 1))
      [] Ch(s, i) = "[" -> ArrayAt(s, SkipWs(s, i + 1))
      [] Ch(s, i) = "\"" -> ScanString(s, i + 1)
      [] Ch(s, i) = "-" \/ IsDigit(Ch(s, i)) -> ScanNumber(s, i)
      [] Ch(s, i) = "t" -> Literal(s, i, "true", JBool(TRUE))
      [] Ch(s, i) = "f" -> Literal(s, i, "false", JBool(FALSE))
      [] Ch(s, i) = "n" -> Literal(s, i, "null", JNull)
      [] OTHER -> JsonFail

ScanValue(s, i0) == ValueAt(s, SkipWs(s, i0))

ParsedAll(text, r) ==
    IF r.ok /\ SkipWs(text, r.i) = Len(text) + 1
    THEN [ok |-> TRUE, v |-> r.v]
    ELSE [ok |-> FALSE, v |-> JUndef]

\* JSON.parse(text): [ok, v]; ok = FALSE is the SyntaxError
JsonParse(text) == ParsedAll(text, ScanValue(text, 1))

-----------------------------------------------------------------------------
(* Outcomes *)

TypeError == "TypeError"
StackOverflow == "RangeError: Maximum call stack size exceeded"
DataViewRange == "RangeError: Offset is outside the bounds of the DataView"
TypedArrayRange == "RangeError: Invalid typed array length"
InvalidSignature == "Invalid PNG signature"
NoMetadataPNG == "No ComfyUI metadata found in PNG chunks."

NoValue == [raw |-> "", summary |-> <<>>, positivePrompt |-> JUndef, negativePrompt |-> JUndef]
Pending == [kind |-> "none", error |-> "", value |-> NoValue]
Thrown(err) == [kind |-> "throw", error |-> err, value |-> NoValue]
Returned(val) == [kind |-> "return", error |-> "", value |-> val]

EmptyResult == [positive |-> "", negative |-> "", all |-> <<>>]

\* parseMP4 has not run
NoScan ==
    [text |-> <<>>, starts |-> <<>>, ci |-> 0, flags |-> {}, seen |-> <<>>, best |-> <<>>,
     fallback |-> <<>>]

-----------------------------------------------------------------------------
(* extractPrompts: the graph resolver *)

\* cleanText
\* A cleanText that trims nothing
NoClean(text) == text

cleanText(text) == IF text = "" THEN "" ELSE Trim(text)

TEXT_INPUT_KEYS ==
    << "text", "text_g", "text_l", "string", "prompt", "value", "input_text", "string_field",
       "text_positive", "text_negative", "text_a", "text_b", "positive", "negative",
       "caption", "tag", "tags", "description", "message", "t5xxl", "clip_l" >>

\* Shortest length minus one of a string the text-key scan accepts
TextKeyMinLen == 1
\* Shortest length minus one of a widget string the UI fallback accepts
WidgetMinLen == 5
\* Shortest length minus one of a string the leaf collection accepts
LeafMinLen == 3

\* x.inputs ? x.inputs[key] : undefined
InputOf(x, key) ==
    IF Truthy(Get(x, "inputs")) THEN Get(Get(x, "inputs"), key) ELSE JUndef

\* (x.class_type || '').toLowerCase() throws when class_type is truthy and
\* not a string: it has no toLowerCase method
ClassTypeThrows(x) == Truthy(Get(x, "class_type")) /\ ~IsStr(Get(x, "class_type"))

\* (x.class_type || '').toLowerCase()
LowerType(x) ==
    IF Truthy(Get(x, "class_type")) THEN ToLowerCase(Get(x, "class_type").v) ELSE ""

\* Set.prototype.has with SameValueZero: primitives by value, objects and
\* arrays by identity (two places of a parsed JSON text never share one)
VisitedHas(visited, x) == x.t \notin {"arr", "obj"} /\ x \in visited

\* A scan in the order of the node's own keys instead of the list's
KeyOrderScan(sourceNode, k) ==
    LET inputs == Get(sourceNode, "inputs")
        keys == IF inputs.t = "obj" THEN ObjectKeys(inputs) ELSE <<>>
        hits == {i \in 1..Len(keys) :
                    /\ \E j \in 1..Len(TEXT_INPUT_KEYS) : TEXT_INPUT_KEYS[j] = keys[i]
                    /\ IsStr(Get(inputs, keys[i])) /\ Len(Get(inputs, keys[i]).v) > TextKeyMinLen}
    IN  IF hits = {} THEN JUndef
        ELSE Get(inputs, keys[CHOOSE i \in hits : \A j \in hits : i <= j])

\* The first string under a key of TEXT_INPUT_KEYS, in list order
RECURSIVE TextKeyScan(_, _)
TextKeyScan(sourceNode, k) ==
    IF k > Len(TEXT_INPUT_KEYS) THEN JUndef
    ELSE LET inputVal == InputOf(sourceNode, TEXT_INPUT_KEYS[k]) IN
         IF IsStr(inputVal) /\ Len(inputVal.v) > TextKeyMinLen THEN inputVal
         ELSE TextKeyScan(sourceNode, k + 1)

\* A test that takes every node for a pass-through node
EveryType(type) == TRUE

\* A test that knows reroute nodes only
RerouteOnly(type) == Includes(type, "reroute")

IsPassThrough(type) ==
    \/ Includes(type, "reroute") \/ Includes(type, "primitive") \/ Includes(type, "node")
    \/ Includes(type, "pipe") \/ Includes(type, "bus")

\* A test that knows combine nodes only
CombineOnly(type) == Includes(type, "combine")

IsCombiner(type) ==
    Includes(type, "combine") \/ Includes(type, "concat") \/ Includes(type, "average")

Max(a, b) == IF a >= b THEN a ELSE b

\* The first string longer than WidgetMinLen in widgets_values
FirstWidgetString(widgets) ==
    IF \E i \in 1..Len(widgets) : IsStr(widgets[i]) /\ Len(widgets[i].v) > WidgetMinLen
    THEN widgets[CHOOSE i \in 1..Len(widgets) :
                    /\ IsStr(widgets[i]) /\ Len(widgets[i].v) > WidgetMinLen
                    /\ \A j \in 1..(i - 1) : ~(IsStr(widgets[j]) /\ Len(widgets[j].v) > WidgetMinLen)]
    ELSE JUndef

\* new Set([...visited, sourceId])
VisitedWith(visited, sourceId) == visited \cup {sourceId}

\* One activation of resolveInput(node, inputName, visited). stage is "enter"
\* before its body has run, "pass" in the pass-through loop, "p1" and "p2" in
\* the two || chains of the combiner; names[idx] is the input the next nested
\* call resolves; src and srcId are sourceNode and sourceId.
Frame(node, inputName, visited) ==
    [node |-> node, inputName |-> inputName, visited |-> visited, stage |-> "enter",
     names |-> <<>>, idx |-> 0, p1 |-> JNull, done |-> FALSE, val |-> JNull,
     src |-> JUndef, srcId |-> JUndef]

\* A second branch that reads the inputs of the first
FirstBranchAgain == <<"conditioning_1", "text_a", "string_a">>

P1Names == <<"conditioning_1", "text_a", "string_a">>
P2Names == <<"conditioning_2", "text_b", "string_b">>

Finish(f, val) == [f EXCEPT !.done = TRUE, !.val = val]

\* The body of resolveInput up to its first nested call: the frame after it,
\* done with the value returned, or staged for the nested calls; err is the
\* exception raised ("" if none).
resolveInput(f, nm, api) ==
    LET node == f.node
        val == IF Truthy(node) THEN InputOf(node, f.inputName) ELSE JUndef
        widgets == IF Truthy(node) THEN Get(node, "widgets_values") ELSE JUndef
        strVal == IF val = JUndef /\ ~api /\ Truthy(widgets) /\ IsArr(widgets)
                  THEN FirstWidgetString(widgets.v) ELSE JUndef
        isLink == IsArr(val) /\ Len(val.v) = 2 /\ api
        sourceId == IF isLink THEN val.v[1] ELSE JUndef
        sourceNode == IF isLink THEN Get(nm, ToPropertyKey(sourceId)) ELSE JUndef
        found == IF Truthy(sourceNode) THEN TextKeyScan(sourceNode, 1) ELSE JUndef
        type == IF Truthy(sourceNode) /\ ~ClassTypeThrows(sourceNode)
                THEN LowerType(sourceNode) ELSE ""
        keys == IF Truthy(sourceNode) /\ Truthy(Get(sourceNode, "inputs"))
                THEN ObjectKeys(Get(sourceNode, "inputs")) ELSE <<>>
        staged == [f EXCEPT !.src = sourceNode, !.srcId = sourceId, !.idx = 1]
        ok(g) == [frame |-> g, err |-> ""]
    IN
    IF ~Truthy(node) THEN ok(Finish(f, JNull))
    ELSE IF VisitedHas(f.visited,
                       IF Truthy(Get(node, "id")) THEN Get(node, "id") ELSE JStr(""))
    THEN ok(Finish(f, JNull))
    ELSE IF Truthy(strVal) THEN ok(Finish(f, strVal))
    ELSE IF IsStr(val) THEN ok(Finish(f, val))
    ELSE IF ~isLink THEN ok(Finish(f, JNull))
    ELSE IF ~Truthy(sourceNode) THEN ok(Finish(f, JNull))
    ELSE IF found # JUndef THEN ok(Finish(f, found))
    ELSE IF ClassTypeThrows(sourceNode) THEN [frame |-> f, err |-> TypeError]
    ELSE IF IsPassThrough(type) /\ keys # <<>>
    THEN ok([staged EXCEPT !.stage = "pass", !.names = keys])
    ELSE IF IsCombiner(type)
    THEN ok([staged EXCEPT !.stage = "p1", !.names = P1Names])
    ELSE ok(Finish(f, JNull))

\* The caller's frame once the nested call for names[idx] has returned res
AfterCall(f, res) ==
    CASE f.stage = "pass" ->
            IF Truthy(res) THEN Finish(f, res)
            ELSE IF f.idx < Len(f.names) THEN [f EXCEPT !.idx = f.idx + 1]
            ELSE IF IsCombiner(LowerType(f.src))
            THEN [f EXCEPT !.stage = "p1", !.names = P1Names, !.idx = 1]
            ELSE Finish(f, JNull)
      [] f.stage = "p1" ->
            IF Truthy(res) \/ f.idx = Len(f.names)
            THEN [f EXCEPT !.stage = "p2", !.names = P2Names, !.idx = 1, !.p1 = res]
            ELSE [f EXCEPT !.idx = f.idx + 1]
      [] f.stage = "p2" ->
            IF Truthy(res) \/ f.idx = Len(f.names)
            THEN IF Truthy(f.p1) /\ Truthy(res)
                 THEN Finish(f, JStr(f.p1.v \o "\n\n" \o res.v))
                 ELSE IF Truthy(f.p1) THEN Finish(f, f.p1) ELSE Finish(f, res)
            ELSE [f EXCEPT !.idx = f.idx + 1]

\* The filter of step 3: is this node a sampler?
\* A filter that takes every node with sampler in its type
SamplerOnly(node) == Includes(LowerType(node), "sampler")

IsSampler(node) ==
    LET type == LowerType(node) IN
    /\ Includes(type, "sampler") \/ Includes(type, "generate")
    /\ ~Includes(type, "save")
    /\ ~Includes(type, "load")

IsNullish(x) == x.t \in {"null", "undef"}

\* The string inputs of one node that the leaf collection keeps
LeafInput(val) ==
    /\ IsStr(val) /\ Len(val.v) > LeafMinLen
    /\ ~Includes(val.v, ".safetensors") /\ ~Includes(val.v, ".pt") /\ ~Includes(val.v, ".ckpt")

\* A leaf collection that skips the widgets
NoWidget(val) == FALSE

\* The widget strings of one node that the leaf collection keeps
LeafWidget(val) ==
    IsStr(val) /\ Len(val.v) > LeafMinLen /\ ~Includes(val.v, ".safetensors")

RECURSIVE MapStr(_)
MapStr(seq) == IF seq = <<>> THEN <<>> ELSE <<Head(seq).v>> \o MapStr(Tail(seq))

\* What one node pushes onto result.all
NodeLeaves(node) ==
    LET inputs == Get(node, "inputs")
        widgets == Get(node, "widgets_values")
    IN  (IF Truthy(inputs) THEN MapStr(SelectSeq(ObjectValues(inputs), LeafInput)) ELSE <<>>)
        \o (IF Truthy(widgets) /\ IsArr(widgets) THEN MapStr(SelectSeq(widgets.v, LeafWidget)) ELSE <<>>)

RECURSIVE AllLeaves(_)
AllLeaves(nodes) ==
    IF nodes = <<>> THEN <<>> ELSE NodeLeaves(Head(nodes)) \o AllLeaves(Tail(nodes))

\* A collection that keeps its duplicates
KeepAll(list, acc) == list

\* [...new Set(list)]: first occurrences, in order
RECURSIVE Dedupe(_, _)
Dedupe(list, acc) ==
    IF list = <<>> THEN acc
    ELSE IF \E i \in 1..Len(acc) : acc[i] = Head(list) THEN Dedupe(Tail(list), acc)
    ELSE Dedupe(Tail(list), Append(acc, Head(list)))

\* nodesMap after data.nodes.forEach(node => nodesMap[node.id] = node)
RECURSIVE MapById(_, _)
MapById(nodes, acc) ==
    IF nodes = <<>> THEN acc
    ELSE MapById(Tail(nodes), ObjSet(acc, ToPropertyKey(Get(Head(nodes), "id")), Head(nodes)))

\* Inside parseMP4 the call runs in a try block whose catch goes on with the
\* next candidate
Throw(err) ==
    IF caller = "parseMP4"
    THEN pc' = "mp4_catch" /\ outcome' = outcome
    ELSE pc' = "done" /\ outcome' = Thrown(err)

\* An unwrapping that looks at workflow before prompt
EP_UnwrapWorkflowFirst ==
    /\ pc = "ep_unwrap"
    /\ IF IsNullish(data)
       THEN Throw(TypeError) /\ UNCHANGED data
       ELSE /\ pc' = "ep_map"
            /\ outcome' = outcome
            /\ data' =
                IF ~Truthy(Get(data, "nodes")) /\ ~IsArr(data)
                THEN IF Truthy(Get(data, "workflow")) /\ TypeofObject(Get(data, "workflow"))
                     THEN Get(data, "workflow")
                     ELSE IF /\ Truthy(Get(data, "prompt")) /\ TypeofObject(Get(data, "prompt"))
                             /\ ~IsArr(Get(data, "prompt"))
                          THEN Get(data, "prompt")
                          ELSE data
                ELSE data
    /\ result' = EmptyResult
    /\ UNCHANGED <<app, input, mp4, buffer, offset, foundText, rawJson, nodesMap, isApiFormat,
                   samplers, si, stack, phase, pos, maxDepth, maxRead, walked, caller>>

\* Step 0: unwrap a { prompt: ..., workflow: ... } wrapper
EP_Unwrap ==
    /\ pc = "ep_unwrap"
    /\ IF IsNullish(data)
       THEN Throw(TypeError) /\ UNCHANGED data
       ELSE /\ pc' = "ep_map"
            /\ outcome' = outcome
            /\ data' =
                IF ~Truthy(Get(data, "nodes")) /\ ~IsArr(data)
                THEN IF /\ Truthy(Get(data, "prompt")) /\ TypeofObject(Get(data, "prompt"))
                        /\ ~IsArr(Get(data, "prompt"))
                     THEN Get(data, "prompt")
                     ELSE IF Truthy(Get(data, "workflow")) /\ TypeofObject(Get(data, "workflow"))
                          THEN Get(data, "workflow")
                          ELSE data
                ELSE data
    /\ result' = EmptyResult
    /\ UNCHANGED <<app, input, mp4, buffer, offset, foundText, rawJson, nodesMap, isApiFormat,
                   samplers, si, stack, phase, pos, maxDepth, maxRead, walked, caller>>

\* Step 1: determine the format and build the node map
EP_BuildMap ==
    /\ pc = "ep_map"
    /\ IF Truthy(Get(data, "nodes")) /\ IsArr(Get(data, "nodes"))
       THEN IF \E i \in 1..Len(Get(data, "nodes").v) : IsNullish(Get(data, "nodes").v[i])
            THEN Throw(TypeError) /\ UNCHANGED <<nodesMap, isApiFormat>>
            ELSE /\ nodesMap' = JObj(MapById(Get(data, "nodes").v, <<>>))
                 /\ isApiFormat' = FALSE
                 /\ pc' = "ep_leaves"
                 /\ outcome' = outcome
       ELSE IF TypeofObject(data)
            THEN /\ nodesMap' = data
                 /\ isApiFormat' = TRUE
                 /\ pc' = "ep_samplers"
                 /\ outcome' = outcome
            ELSE /\ nodesMap' = JObj(<<>>)
                 /\ isApiFormat' = FALSE
                 /\ pc' = "ep_leaves"
                 /\ outcome' = outcome
    /\ UNCHANGED <<app, input, mp4, buffer, offset, foundText, rawJson, data, samplers, si, stack,
                   phase, pos, result, maxDepth, maxRead, walked, caller>>

\* Step 3, first half: filter the sampler nodes
EP_FindSamplers ==
    /\ pc = "ep_samplers"
    /\ LET nodes == ObjectValues(nodesMap) IN
       IF \E i \in 1..Len(nodes) : IsNullish(nodes[i]) \/ ClassTypeThrows(nodes[i])
       THEN Throw(TypeError) /\ UNCHANGED <<samplers, si>>
       ELSE /\ samplers' = SelectSeq(nodes, IsSampler)
            /\ si' = 1
            /\ pc' = "ep_trace"
            /\ outcome' = outcome
    /\ UNCHANGED <<app, input, mp4, buffer, offset, foundText, rawJson, data, nodesMap, isApiFormat,
                   stack, phase, pos, result, maxDepth, maxRead, walked, caller>>

\* Step 3, second half: an iteration of the loop over the samplers begins
\* with resolveInput(sampler, 'positive')
EP_TraceSampler ==
    /\ pc = "ep_trace"
    /\ si <= Len(samplers)
    /\ stack' = <<Frame(samplers[si], "positive", {})>>
    /\ phase' = "positive"
    /\ maxDepth' = Max(maxDepth, 1)
    /\ pc' = "ri"
    /\ UNCHANGED <<app, input, mp4, buffer, offset, foundText, rawJson, data, nodesMap, isApiFormat,
                   samplers, si, result, pos, maxRead, walked, caller, outcome>>

\* The innermost activation of resolveInput runs up to its first nested call
RI_Enter ==
    /\ pc = "ri"
    /\ stack[Len(stack)].stage = "enter"
    /\ ~stack[Len(stack)].done
    /\ LET r == resolveInput(stack[Len(stack)], nodesMap, isApiFormat) IN
       IF r.err # ""
       THEN Throw(r.err) /\ UNCHANGED stack
       ELSE /\ stack' = [stack EXCEPT ![Len(stack)] = r.frame]
            /\ UNCHANGED <<pc, outcome>>
    /\ UNCHANGED <<app, input, mp4, buffer, offset, foundText, rawJson, data, nodesMap, isApiFormat,
                   samplers, si, result, phase, pos, maxDepth, maxRead, walked, caller>>

\* A nested call resolveInput(sourceNode, name, new Set([...visited, sourceId]))
RI_Call ==
    /\ pc = "ri"
    /\ stack[Len(stack)].stage # "enter"
    /\ ~stack[Len(stack)].done
    /\ LET f == stack[Len(stack)] IN
       IF Len(stack) >= StackLimit
       THEN Throw(StackOverflow) /\ UNCHANGED <<stack, maxDepth>>
       ELSE /\ stack' = Append(stack, Frame(f.src, f.names[f.idx],
                                            VisitedWith(f.visited, f.srcId)))
            /\ maxDepth' = Max(maxDepth, Len(stack) + 1)
            /\ UNCHANGED <<pc, outcome>>
    /\ UNCHANGED <<app, input, mp4, buffer, offset, foundText, rawJson, data, nodesMap, isApiFormat,
                   samplers, si, result, phase, pos, maxRead, walked, caller>>

\* A nested call returns to the activation that made it
RI_Return ==
    /\ pc = "ri"
    /\ Len(stack) >= 2
    /\ stack[Len(stack)].done
    /\ stack' = [SubSeq(stack, 1, Len(stack) - 1) EXCEPT
                    ![Len(stack) - 1] = AfterCall(stack[Len(stack) - 1], stack[Len(stack)].val)]
    /\ UNCHANGED <<pc, app, input, mp4, buffer, offset, foundText, rawJson, data, nodesMap, isApiFormat,
                   samplers, si, result, phase, pos, maxDepth, maxRead, walked, caller,
                   outcome>>

\* resolveInput(sampler, 'positive') returned nothing:
\* || resolveInput(sampler, 'conditioning')
EP_TraceConditioning ==
    /\ pc = "ri"
    /\ Len(stack) = 1
    /\ stack[1].done
    /\ phase = "positive"
    /\ ~Truthy(stack[1].val)
    /\ stack' = <<Frame(samplers[si], "conditioning", {})>>
    /\ phase' = "conditioning"
    /\ UNCHANGED <<pc, app, input, mp4, buffer, offset, foundText, rawJson, data, nodesMap, isApiFormat,
                   samplers, si, result, pos, maxDepth, maxRead, walked, caller, outcome>>

\* pos is known: resolveInput(sampler, 'negative')
EP_TraceNegative ==
    /\ pc = "ri"
    /\ Len(stack) = 1
    /\ stack[1].done
    /\ \/ phase = "positive" /\ Truthy(stack[1].val)
       \/ phase = "conditioning"
    /\ pos' = stack[1].val
    /\ stack' = <<Frame(samplers[si], "negative", {})>>
    /\ phase' = "negative"
    /\ UNCHANGED <<pc, app, input, mp4, buffer, offset, foundText, rawJson, data, nodesMap, isApiFormat,
                   samplers, si, result, maxDepth, maxRead, walked, caller, outcome>>

\* An iteration in which a later sampler overwrites an earlier one
EP_TraceOverwrite ==
    /\ pc = "ri"
    /\ Len(stack) = 1
    /\ stack[1].done
    /\ phase = "negative"
    /\ LET neg == stack[1].val
           positive == IF Truthy(pos)
                       THEN cleanText(pos.v) ELSE result.positive
           negative == IF Truthy(neg)
                       THEN cleanText(neg.v) ELSE result.negative
       IN  /\ result' = [result EXCEPT !.positive = positive, !.negative = negative]
           /\ pc' = IF positive # "" /\ negative # "" THEN "ep_leaves" ELSE "ep_trace"
    /\ si' = si + 1
    /\ stack' = <<>>
    /\ phase' = ""
    /\ pos' = JNull
    /\ UNCHANGED <<app, input, mp4, buffer, offset, foundText, rawJson, data, nodesMap, isApiFormat,
                   samplers, maxDepth, maxRead, walked, caller, outcome>>

\* neg is known: the assignments that end the iteration, and the break
EP_TraceAssign ==
    /\ pc = "ri"
    /\ Len(stack) = 1
    /\ stack[1].done
    /\ phase = "negative"
    /\ LET neg == stack[1].val
           positive == IF Truthy(pos) /\ result.positive = ""
                       THEN cleanText(pos.v) ELSE result.positive
           negative == IF Truthy(neg) /\ result.negative = ""
                       THEN cleanText(neg.v) ELSE result.negative
       IN  /\ result' = [result EXCEPT !.positive = positive, !.negative = negative]
           /\ pc' = IF positive # "" /\ negative # "" THEN "ep_leaves" ELSE "ep_trace"
    /\ si' = si + 1
    /\ stack' = <<>>
    /\ phase' = ""
    /\ pos' = JNull
    /\ UNCHANGED <<app, input, mp4, buffer, offset, foundText, rawJson, data, nodesMap, isApiFormat,
                   samplers, maxDepth, maxRead, walked, caller, outcome>>

\* The loop over the samplers runs out
EP_TraceDone ==
    /\ pc = "ep_trace"
    /\ si > Len(samplers)
    /\ pc' = "ep_leaves"
    /\ UNCHANGED <<app, input, mp4, buffer, offset, foundText, rawJson, data, nodesMap, isApiFormat,
                   samplers, si, stack, phase, pos, result, maxDepth, maxRead, walked, caller,
                   outcome>>

\* Step 4: collect all strings, remove duplicates, return
EP_CollectLeaves ==
    /\ pc = "ep_leaves"
    /\ LET nodes == ObjectValues(nodesMap) IN
       IF \E i \in 1..Len(nodes) : IsNullish(nodes[i])
       THEN Throw(TypeError) /\ UNCHANGED result
       ELSE /\ result' = [result EXCEPT !.all = Dedupe(AllLeaves(nodes), <<>>)]
            /\ IF caller = "none"
               THEN /\ pc' = "done"
                    /\ outcome' = Returned([raw |-> "", summary |-> result'.all,
                                            positivePrompt |-> JStr(result'.positive),
                                            negativePrompt |-> JStr(result'.negative)])
               ELSE /\ pc' = IF caller = "parsePNG" THEN "png_return" ELSE "mp4_result"
                    /\ outcome' = outcome
    /\ UNCHANGED <<app, input, mp4, buffer, offset, foundText, rawJson, data, nodesMap, isApiFormat,
                   samplers, si, stack, phase, pos, maxDepth, maxRead, walked, caller>>

-----------------------------------------------------------------------------
(* Inputs of the graph resolver: parsed JSON values *)

\* The link [id, 0]
Link(id) == JArr(<<JStr(id), JNum(0)>>)

\* Ids of the nodes besides the sampler in the generated API graphs
FreeIds == <<"4", "5", "6">>
NumFree == Len(FreeIds)
NextId(i) == FreeIds[(i % NumFree) + 1]
PrevId(i) == FreeIds[((i + NumFree - 2) % NumFree) + 1]
TextOf(i) == IF i % 2 = 0 THEN "foo" ELSE "bar"

ApiKinds ==
    { "text", "long", "one", "weights", "reroute_next", "reroute_prev", "combine",
      "combine_node", "combine_text", "missing", "null", "bare", "noclass", "numclass", "withid", "widgets" }

\* The i-th free node of an API graph, of a given kind
ApiNode(kind, i) ==
    CASE kind = "text" ->
            Obj(<< <<"class_type", JStr("CLIPTextEncode")>>,
                   <<"inputs", Obj(<< <<"text", JStr(TextOf(i))>>, <<"clip", Link("1")>> >>)>> >>)
      [] kind = "long" ->
            Obj(<< <<"class_type", JStr("CLIPTextEncode")>>,
                   <<"inputs", Obj(<< <<"text", JStr(" a red fox ")>> >>)>> >>)
      [] kind = "one" ->
            Obj(<< <<"class_type", JStr("CLIPTextEncode")>>,
                   <<"inputs", Obj(<< <<"text", JStr("a")>> >>)>> >>)
      [] kind = "weights" ->
            Obj(<< <<"class_type", JStr("CheckpointLoaderSimple")>>,
                   <<"inputs", Obj(<< <<"ckpt_name", JStr("v1-5.safetensors")>>,
                                      <<"vae_name", JStr("vae.pt")>>,
                                      <<"lora_name", JStr("add.ckpt")>>,
                                      <<"note", JStr("uses .pt files")>>,
                                      <<"mode", JStr("ok")>> >>)>> >>)
      [] kind = "reroute_next" ->
            Obj(<< <<"class_type", JStr("Reroute")>>,
                   <<"inputs", Obj(<< <<"x", Link(NextId(i))>> >>)>> >>)
      [] kind = "reroute_prev" ->
            Obj(<< <<"class_type", JStr("Reroute")>>,
                   <<"inputs", Obj(<< <<"x", Link(PrevId(i))>> >>)>> >>)
      [] kind = "combine" ->
            Obj(<< <<"class_type", JStr("ConditioningCombine")>>,
                   <<"inputs", Obj(<< <<"conditioning_1", Link(NextId(i))>>,
                                      <<"conditioning_2", Link(PrevId(i))>> >>)>> >>)
      [] kind = "combine_node" ->
            Obj(<< <<"class_type", JStr("CombineNode")>>,
                   <<"inputs", Obj(<< <<"conditioning_1", Link(NextId(i))>>,
                                      <<"conditioning_2", Link(PrevId(i))>> >>)>> >>)
      [] kind = "combine_text" ->
            Obj(<< <<"class_type", JStr("ConditioningCombine")>>,
                   <<"inputs", Obj(<< <<"conditioning_1", Link(NextId(i))>>,
                                      <<"conditioning_2", Link(PrevId(i))>>,
                                      <<"tag", JStr("mix")>> >>)>> >>)
      [] kind = "missing" ->
            Obj(<< <<"class_type", JStr("Reroute")>>,
                   <<"inputs", Obj(<< <<"x", Link("9")>> >>)>> >>)
      [] kind = "null" -> JNull
      [] kind = "bare" -> Obj(<< <<"class_type", JStr("VAEDecode")>> >>)
      [] kind = "noclass" -> Obj(<< <<"inputs", Obj(<< <<"text", JNum(7)>> >>)>> >>)
      [] kind = "numclass" ->
            Obj(<< <<"class_type", JNum(7)>>, <<"inputs", JStr("abcde")>> >>)
      [] kind = "withid" ->
            Obj(<< <<"id", JStr(FreeIds[i])>>, <<"class_type", JStr("Reroute")>>,
                   <<"inputs", Obj(<< <<"x", Link(NextId(i))>> >>)>> >>)
      [] kind = "widgets" ->
            Obj(<< <<"class_type", JStr("Note")>>,
                   <<"widgets_values", JArr(<<JStr("model.ckpt"), JStr(" a red fox ")>>)>> >>)

TheSampler ==
    Obj(<< <<"class_type", JStr("KSampler")>>,
           <<"inputs", Obj(<< <<"seed", JNum(7)>>, <<"positive", Link("4")>>,
                              <<"negative", Link("5")>> >>)>> >>)

\* The API graph { "3": sampler, "4": ..., "5": ..., ... } with free nodes of
\* the given kinds
ApiGraph(kinds) ==
    Obj(<< <<"3", TheSampler>> >> \o [i \in 1..NumFree |-> <<FreeIds[i], ApiNode(kinds[i], i)>>])

ApiGraphs == {ApiGraph(kinds) : kinds \in [1..NumFree -> ApiKinds]}

UiKinds == {"prompt", "weights", "short", "null", "noid", "inputs", "dup"}

UiNode(kind, i) ==
    CASE kind = "prompt" ->
            Obj(<< <<"id", JNum(i)>>, <<"type", JStr("CLIPTextEncode")>>,
                   <<"widgets_values", JArr(<<JStr("a valid prompt string"), JNum(7)>>)>> >>)
      [] kind = "weights" ->
            Obj(<< <<"id", JNum(i)>>,
                   <<"widgets_values", JArr(<<JStr("model.safetensors"), JStr("add.ckpt"),
                                             JStr("vae.pt")>>)>> >>)
      [] kind = "short" ->
            Obj(<< <<"id", JNum(i)>>, <<"widgets_values", JArr(<<JStr("ok")>>)>> >>)
      [] kind = "null" -> JNull
      [] kind = "noid" ->
            Obj(<< <<"widgets_values", JArr(<<JStr("a valid prompt string")>>)>> >>)
      [] kind = "inputs" ->
            Obj(<< <<"id", JNum(i)>>, <<"class_type", JStr("KSampler")>>,
                   <<"inputs", Obj(<< <<"positive", JStr("a valid prompt string")>> >>)>> >>)
      [] kind = "dup" ->
            Obj(<< <<"id", JNum(1)>>,
                   <<"widgets_values", JArr(<<JStr("another prompt text"),
                                             JStr("old.safetensors copy")>>)>> >>)

UiGraphs ==
    {Obj(<< <<"nodes", JArr(<<UiNode(k1, 1), UiNode(k2, 2)>>)>>, <<"links", JArr(<<>>)>> >>) :
        k1 \in UiKinds, k2 \in UiKinds}

SmallApi == ApiGraph([i \in 1..NumFree |-> "text"])
SmallUi == Obj(<< <<"nodes", JArr(<<UiNode("prompt", 1)>>)>> >>)

Wrappers ==
    { Obj(<< <<"prompt", SmallApi>>, <<"workflow", SmallUi>> >>),
      Obj(<< <<"workflow", SmallUi>> >>),
      Obj(<< <<"workflow", JArr(<<TheSampler>>)>> >>),
      Obj(<< <<"prompt", JStr("a cat")>>, <<"workflow", SmallApi>> >>),
      Obj(<< <<"extra_pnginfo", Obj(<< <<"workflow", SmallUi>> >>)>> >>),
      Obj(<< <<"nodes", JStr("none")>>, <<"prompt", SmallApi>> >>),
      Obj(<< <<"prompt", JArr(<<TheSampler>>)>>, <<"workflow", SmallUi>> >>),
      Obj(<< <<"workflow", JStr("a workflow name")>> >>),
      Obj(<< <<"nodes", JArr(<<>>)>>, <<"prompt", SmallApi>> >>) }

\* Graphs of three nodes that are, or look like, samplers with literal inputs
SamplerKinds ==
    { "both", "posonly", "negonly", "blank", "cond", "image", "generate", "load", "save",
      "plain" }

SamplerNode(kind, i) ==
    CASE kind = "both" ->
            Obj(<< <<"class_type", JStr("KSampler")>>,
                   <<"inputs", Obj(<< <<"positive", JStr(" pos" \o StrOfNat(i) \o " ")>>,
                                      <<"negative", JStr("neg" \o StrOfNat(i))>> >>)>> >>)
      [] kind = "posonly" ->
            Obj(<< <<"class_type", JStr("KSampler")>>,
                   <<"inputs", Obj(<< <<"positive", JStr("pos" \o StrOfNat(i))>> >>)>> >>)
      [] kind = "negonly" ->
            Obj(<< <<"class_type", JStr("SamplerCustom")>>,
                   <<"inputs", Obj(<< <<"negative", JStr("neg" \o StrOfNat(i) \o "\n")>> >>)>> >>)
      [] kind = "blank" ->
            Obj(<< <<"class_type", JStr("KSampler")>>,
                   <<"inputs", Obj(<< <<"positive", JStr("  ")>>,
                                      <<"negative", JStr(" ")>> >>)>> >>)
      [] kind = "cond" ->
            Obj(<< <<"class_type", JStr("KSamplerAdvanced")>>,
                   <<"inputs", Obj(<< <<"conditioning", JStr("cond" \o StrOfNat(i))>>,
                                      <<"positive", JStr("")>> >>)>> >>)
      [] kind = "image" ->
            Obj(<< <<"class_type", JStr("ImageSampler")>>,
                   <<"inputs", Obj(<< <<"positive", JStr("img" \o StrOfNat(i))>>,
                                      <<"negative", JStr("imn" \o StrOfNat(i))>> >>)>> >>)
      [] kind = "generate" ->
            Obj(<< <<"class_type", JStr("TextGenerate")>>,
                   <<"inputs", Obj(<< <<"positive", JStr("gen" \o StrOfNat(i))>> >>)>> >>)
      [] kind = "load" ->
            Obj(<< <<"class_type", JStr("SamplerLoader")>>,
                   <<"inputs", Obj(<< <<"positive", JStr("lod" \o StrOfNat(i))>> >>)>> >>)
      [] kind = "save" ->
            Obj(<< <<"class_type", JStr("SaveSamplerState")>>,
                   <<"inputs", Obj(<< <<"negative", JStr("sav" \o StrOfNat(i))>> >>)>> >>)
      [] kind = "plain" ->
            Obj(<< <<"class_type", JStr("CLIPTextEncode")>>,
                   <<"inputs", Obj(<< <<"text", JStr("foo")>> >>)>> >>)

SamplerGraphs ==
    {Obj(<< <<"2", SamplerNode(k2, 2)>>, <<"1", SamplerNode(k1, 1)>>,
            <<"3", SamplerNode(k3, 3)>> >>) :
        k1 \in SamplerKinds, k2 \in SamplerKinds, k3 \in SamplerKinds}

\* Graphs in which the sampler at "3" links its positive input to the node
\* at "4" and its negative input to the node at "5"; "6" and "7" are text
\* nodes holding "foo" and "bar"
LinkKinds ==
    { "twokeys", "onechar", "onepass", "empty", "shapes", "shapes_only", "unknown",
      "passorder", "passblank", "comb_lit_text", "comb_lit_string", "comb_links",
      "comb_first", "comb_second", "comb_none", "comb_chars", "comb_blank", "comb_pairs" }

Node(type, inputs) == Obj(<< <<"class_type", JStr(type)>>, <<"inputs", Obj(inputs)>> >>)

LinkNode(kind) ==
    CASE kind = "twokeys" ->
            Node("Reroute", << <<"tag", JStr("later")>>, <<"text_g", JStr("sooner")>>,
                               <<"x", Link("6")>> >>)
      [] kind = "onechar" ->
            Node("CLIPTextEncode", << <<"text", JStr("a")>>, <<"caption", JStr("mix")>> >>)
      [] kind = "onepass" -> Node("PrimitiveNode", << <<"text", JStr("a")>> >>)
      [] kind = "empty" -> Node("CLIPTextEncode", << <<"text", JStr("")>> >>)
      [] kind = "shapes" ->
            Node("Reroute", << <<"a", JNum(5)>>, <<"b", JBool(TRUE)>>,
                               <<"c", Obj(<< <<"text", JStr("nested text")>> >>)>>,
                               <<"d", JArr(<<JStr("6"), JNum(0), JNum(1)>>)>>,
                               <<"e", JArr(<<JStr("6")>>)>>, <<"f", JNull>>,
                               <<"g", Link("6")>> >>)
      [] kind = "shapes_only" ->
            Node("Reroute", << <<"a", JNum(5)>>, <<"b", JBool(FALSE)>>,
                               <<"c", Obj(<< <<"text", JStr("nested text")>> >>)>>,
                               <<"d", JArr(<<JStr("6"), JNum(0), JNum(1)>>)>>,
                               <<"e", JArr(<<JStr("6")>>)>>, <<"f", JArr(<<>>)>> >>)
      [] kind = "unknown" -> Node("VAEDecode", << <<"samples", Link("6")>> >>)
      [] kind = "passorder" -> Node("Pipe", << <<"b", Link("7")>>, <<"1", Link("6")>> >>)
      [] kind = "passblank" -> Node("Reroute", << <<"x", JStr("")>>, <<"y", Link("7")>> >>)
      [] kind = "comb_lit_text" ->
            Node("ConditioningConcat", << <<"text_a", JStr("foo")>>, <<"text_b", JStr("bar")>> >>)
      [] kind = "comb_lit_string" ->
            Node("StringConcat", << <<"string_b", JStr("bar")>>, <<"string_a", JStr("foo")>> >>)
      [] kind = "comb_links" ->
            Node("ConditioningAverage", << <<"conditioning_1", Link("6")>>,
                                           <<"conditioning_2", Link("7")>> >>)
      [] kind = "comb_first" ->
            Node("ConditioningCombine", << <<"conditioning_1", Link("6")>>,
                                           <<"conditioning_2", Link("9")>> >>)
      [] kind = "comb_second" ->
            Node("ConditioningCombine", << <<"string_b", JStr("bar")>> >>)
      [] kind = "comb_none" ->
            Node("ConditioningCombine", << <<"strength", JNum(1)>>,
                                           <<"text_a", Link("9")>> >>)
      [] kind = "comb_chars" ->
            Node("StringConcat", << <<"string_a", JStr("a")>>, <<"string_b", JStr("b")>> >>)
      [] kind = "comb_blank" ->
            Node("StringConcat", << <<"string_a", JStr("")>>, <<"string_b", JStr("bar")>> >>)
      [] kind = "comb_pairs" ->
            Node("ConditioningCombine", << <<"conditioning_1", Link("6")>>,
                                           <<"string_a", Link("7")>>,
                                           <<"string_b", Link("7")>> >>)

LinkGraphs ==
    {Obj(<< <<"3", TheSampler>>, <<"4", LinkNode(k4)>>, <<"5", LinkNode(k5)>>,
            <<"6", Node("CLIPTextEncode", << <<"text", JStr("foo")>> >>)>>,
            <<"7", Node("CLIPTextEncode", << <<"text", JStr("bar")>> >>)>> >>) :
        k4 \in LinkKinds, k5 \in LinkKinds}

OtherValues ==
    { JNull, JNum(5), JNum(0), JStr("hello"), JBool(TRUE), JArr(<<>>), JArr(<<JNull>>),
      JArr(<<TheSampler>>), JObj(<<>>), Obj(<< <<"nodes", JStr("none")>> >>),
      Obj(<< <<"3", JStr("ksampler")>> >>) }

GraphInputs ==
    ApiGraphs \cup UiGraphs \cup Wrappers \cup OtherValues \cup SamplerGraphs \cup LinkGraphs

-----------------------------------------------------------------------------
(* The resolver applied to a parsed JSON value *)

InitGraph ==
    /\ data \in GraphInputs
    /\ input = [entry |-> "extractPrompts", data |-> data, chunks |-> <<>>, cut |-> 0]
    /\ pc = "ep_unwrap"
    /\ caller = "none"
    /\ buffer = <<>>
    /\ offset = 0
    /\ foundText = <<>>
    /\ rawJson = ""
    /\ nodesMap = JObj(<<>>)
    /\ isApiFormat = FALSE
    /\ samplers = <<>>
    /\ si = 0
    /\ stack = <<>>
    /\ phase = ""
    /\ pos = JNull
    /\ result = EmptyResult
    /\ maxDepth = 0
    /\ maxRead = -1
    /\ walked = 0
    /\ outcome = Pending
    /\ mp4 = NoScan
    /\ NoApp

NextGraph ==
    \/ EP_Unwrap
    \/ EP_BuildMap
    \/ EP_FindSamplers
    \/ EP_TraceSampler
    \/ RI_Enter
    \/ RI_Call
    \/ RI_Return
    \/ EP_TraceConditioning
    \/ EP_TraceNegative
    \/ EP_TraceAssign
    \/ EP_TraceDone
    \/ EP_CollectLeaves

SpecGraph == InitGraph /\ [][NextGraph]_vars

-----------------------------------------------------------------------------
(* parsePNG: the bytes of the file *)

\* 0x89504e47 as the four big-endian bytes getUint32(0) reads
PngMagic == <<137, 80, 78, 71>>
\* Where the chunk walk starts
FirstChunk == 8
\* An advance that forgets the CRC: length field and type tag only
NoCrc == 4 + 4

\* Length field, type tag and CRC of a chunk
ChunkOverhead == 12

Min(a, b) == IF a <= b THEN a ELSE b

\* The characters of the code points 32..95 and 97..126, in order
PrintableLow == " !\"#$%&'()*+,-./0123456789:;<=>?@ABCDEFGHIJKLMNOPQRSTUVWXYZ[\\]^_"
PrintableHigh == "abcdefghijklmnopqrstuvwxyz{|}~"

\* TextDecoder('utf-8') on one byte of a single-byte sequence: "\f" stands for
\* the C0 controls other than tab, line feed and carriage return, "?" for the
\* grave accent, DEL and the replacement character of a byte above 127
Chr(b) ==
    CASE b >= 32 /\ b <= 95 -> Ch(PrintableLow, b - 31)
      [] b >= 97 /\ b <= 126 -> Ch(PrintableHigh, b - 96)
      [] b = 9 -> "\t"
      [] b = 10 -> "\n"
      [] b = 13 -> "\r"
      [] b < 32 -> "\f"
      [] OTHER -> "?"

\* decoder.decode(bytes)
RECURSIVE Decode(_)
Decode(bytes) ==
    CASE Len(bytes) = 0 -> ""
      [] Len(bytes) = 1 -> Chr(bytes[1])
      [] OTHER -> Decode(SubSeq(bytes, 1, Len(bytes) \div 2))
                  \o Decode(SubSeq(bytes, Len(bytes) \div 2 + 1, Len(bytes)))

\* buffer.slice(from, to): both ends clamped to the buffer
Slice(buf, from, to) == SubSeq(buf, Min(from, Len(buf)) + 1, Min(to, Len(buf)))

\* dataView.getUint32(off): big-endian, for off + 4 <= byteLength
getUint32(buf, off) ==
    ((buf[off + 1] * 256 + buf[off + 2]) * 256 + buf[off + 3]) * 256 + buf[off + 4]

\* getUint32 raises a RangeError unless the four bytes lie in the view
InView(buf, off) == off + 4 <= Len(buf)

\* A signature test that lets every file through
AnySignature(buf) == TRUE

\* dataView.getUint32(0) === 0x89504e47
SignatureOk(buf) == SubSeq(buf, 1, 4) = PngMagic

\* The index of the first zero byte of chunkData, -1 if there is none
NullByteIndex(chunkData) ==
    IF \E i \in 1..Len(chunkData) : chunkData[i] = 0
    THEN (CHOOSE i \in 1..Len(chunkData) :
              chunkData[i] = 0 /\ \A j \in 1..(i - 1) : chunkData[j] # 0) - 1
    ELSE -1

\* textPart.replace(/^[\x00-\x1F]+/, '')
RECURSIVE StripLeadingCtrl(_)
StripLeadingCtrl(s) ==
    IF s # "" /\ Ch(s, 1) \in CtrlChars THEN StripLeadingCtrl(SubSeq(s, 2, Len(s))) ELSE s

IsTextChunk(type) == type = "tEXt" \/ type = "iTXt"
IsMetaKeyword(keyword) == keyword = "prompt" \/ keyword = "workflow"

\* The heuristic for API format, on the parse j of a text:
\* !j.nodes && !Array.isArray(j), where j.nodes of null raises inside the try
ApiLikeValue(j) == j.ok /\ ~IsNullish(j.v) /\ ~Truthy(Get(j.v, "nodes")) /\ ~IsArr(j.v)

ApiLike(t) == ApiLikeValue(JsonParse(t))

BraceLike(t) == StartsWith(Trim(t), "{")

\* Array.prototype.find over the flags of the elements: the first element
\* whose flag is set, "" for undefined (no empty string is ever flagged)
Find(texts, flags) ==
    IF \E i \in 1..Len(texts) : flags[i]
    THEN texts[CHOOSE i \in 1..Len(texts) : flags[i] /\ \A j \in 1..(i - 1) : ~flags[j]]
    ELSE ""

\* A selection without the second find
FirstOnly(first, second) == first

\* rawJson after if (!rawJson) rawJson = ...
OrElse(first, second) == IF first # "" THEN first ELSE second

SelectRaw(texts) ==
    OrElse(Find(texts, [i \in 1..Len(texts) |-> ApiLike(texts[i])]),
           Find(texts, [i \in 1..Len(texts) |-> BraceLike(texts[i])]))

\* A malformed-JSON result that loses the text
NoRaw(raw) ==
    [raw |-> "", summary |-> <<>>, positivePrompt |-> JUndef, negativePrompt |-> JUndef]

\* The result of the malformed-JSON path: { raw, summary: [] }
RawOnly(raw) ==
    [raw |-> raw, summary |-> <<>>, positivePrompt |-> JUndef, negativePrompt |-> JUndef]

-----------------------------------------------------------------------------
(* parsePNG: the steps *)

\* The signature test
PNG_CheckSignature ==
    /\ pc = "png_sig"
    /\ IF ~InView(buffer, 0)
       THEN Throw(DataViewRange) /\ UNCHANGED <<offset, maxRead>>
       ELSE /\ maxRead' = 3
            /\ IF ~SignatureOk(buffer)
               THEN Throw(InvalidSignature) /\ UNCHANGED offset
               ELSE pc' = "png_walk" /\ offset' = FirstChunk /\ outcome' = outcome
    /\ UNCHANGED <<app, input, mp4, buffer, foundText, rawJson, data, nodesMap, isApiFormat, samplers,
                   si, stack, phase, pos, result, maxDepth, walked, caller>>

\* One turn of the chunk loop
PNG_WalkChunk ==
    /\ pc = "png_walk"
    /\ offset < Len(buffer)
    /\ IF ~InView(buffer, offset)
       THEN Throw(DataViewRange) /\ UNCHANGED <<offset, foundText, maxRead, walked>>
       ELSE LET length == getUint32(buffer, offset)
                type == Decode(Slice(buffer, offset + 4, offset + 8))
                headerEnd == Min(offset + 8, Len(buffer)) - 1
            IN
            IF IsTextChunk(type) /\ offset + 8 + length > Len(buffer)
            THEN /\ Throw(TypedArrayRange)
                 /\ maxRead' = Max(maxRead, headerEnd)
                 /\ walked' = walked + 1
                 /\ UNCHANGED <<offset, foundText>>
            ELSE /\ offset' = offset + ChunkOverhead + length
                 /\ walked' = walked + 1
                 /\ UNCHANGED <<pc, outcome>>
                 /\ IF IsTextChunk(type)
                    THEN LET chunkData == SubSeq(buffer, offset + 9, offset + 8 + length)
                             nullByteIndex == NullByteIndex(chunkData)
                             keyword == Decode(SubSeq(chunkData, 1, nullByteIndex))
                             textPart == Decode(SubSeq(chunkData, nullByteIndex + 2, length))
                         IN
                         /\ foundText' =
                               IF nullByteIndex # -1 /\ IsMetaKeyword(keyword)
                               THEN Append(foundText, StripLeadingCtrl(textPart))
                               ELSE foundText
                         /\ maxRead' =
                               Max(maxRead,
                                   IF nullByteIndex # -1 /\ ~IsMetaKeyword(keyword)
                                   THEN offset + 8 + nullByteIndex
                                   ELSE Max(headerEnd, offset + 8 + length - 1))
                    ELSE /\ foundText' = foundText
                         /\ maxRead' = Max(maxRead, headerEnd)
    /\ UNCHANGED <<app, input, mp4, buffer, rawJson, data, nodesMap, isApiFormat, samplers, si, stack,
                   phase, pos, result, maxDepth, caller>>

\* After the loop: select the text to parse, or fail
PNG_SelectRaw ==
    /\ pc = "png_walk"
    /\ offset >= Len(buffer)
    /\ rawJson' = SelectRaw(foundText)
    /\ IF rawJson' = "" THEN Throw(NoMetadataPNG) ELSE pc' = "png_parse" /\ outcome' = outcome
    /\ UNCHANGED <<app, input, mp4, buffer, offset, foundText, data, nodesMap, isApiFormat, samplers,
                   si, stack, phase, pos, result, maxDepth, maxRead, walked, caller>>

\* JSON.parse(rawJson), and the call of extractPrompts
PNG_ParseRaw ==
    /\ pc = "png_parse"
    /\ data' = JsonParse(rawJson).v
    /\ IF ~JsonParse(rawJson).ok
       THEN pc' = "done" /\ outcome' = Returned(RawOnly(rawJson))
       ELSE pc' = "ep_unwrap" /\ outcome' = outcome
    /\ UNCHANGED <<app, input, mp4, buffer, offset, foundText, rawJson, nodesMap, isApiFormat, samplers,
                   si, stack, phase, pos, result, maxDepth, maxRead, walked, caller>>

\* The result of parsePNG
PNG_Return ==
    /\ pc = "png_return"
    /\ pc' = "done"
    /\ outcome' = Returned([raw |-> rawJson, summary |-> result.all,
                            positivePrompt |-> JStr(result.positive),
                            negativePrompt |-> JStr(result.negative)])
    /\ UNCHANGED <<app, input, mp4, buffer, offset, foundText, rawJson, data, nodesMap, isApiFormat,
                   samplers, si, stack, phase, pos, result, maxDepth, maxRead, walked, caller>>

-----------------------------------------------------------------------------
(* Inputs of parsePNG: files *)

\* Longest run of metadata chunks between IHDR and IEND
MaxChunks == 2

\* The code of a character: the inverse of Chr on the text of the inputs
Ord(c) ==
    CASE c = "\t" -> 9
      [] c = "\n" -> 10
      [] c = "\r" -> 13
      [] \E i \in 1..Len(PrintableLow) : Ch(PrintableLow, i) = c ->
            31 + CHOOSE i \in 1..Len(PrintableLow) : Ch(PrintableLow, i) = c
      [] OTHER -> 96 + CHOOSE i \in 1..Len(PrintableHigh) : Ch(PrintableHigh, i) = c

Bytes(s) == [i \in 1..Len(s) |-> Ord(Ch(s, i))]

U32(n) == << (n \div 16777216) % 256, (n \div 65536) % 256, (n \div 256) % 256, n % 256 >>

Signature == <<137, 80, 78, 71, 13, 10, 26, 10>>

\* The CRC is never looked at
Crc == <<222, 173, 190, 239>>

\* A text chunk: keyword, a zero byte, the bytes before the text, the text
TextChunk(type, keyword, lead, text) ==
    [type |-> type, keyword |-> keyword, text |-> text,
     payload |-> Bytes(keyword) \o <<0>> \o lead \o Bytes(text)]

\* Any other chunk: its bytes
DataChunk(type, payload) ==
    [type |-> type, keyword |-> "", text |-> "", payload |-> payload]

ChunkBytes(c) == U32(Len(c.payload)) \o Bytes(c.type) \o c.payload \o Crc

RECURSIVE ChunksBytes(_)
ChunksBytes(cs) == IF cs = <<>> THEN <<>> ELSE ChunkBytes(Head(cs)) \o ChunksBytes(Tail(cs))

IHDR == DataChunk("IHDR", <<0, 0, 0, 1, 0, 0, 0, 1, 8, 2, 0, 0, 0>>)
IEND == DataChunk("IEND", <<>>)

\* The example graph of the specification with prompts P and N
ExampleJson(P, N) ==
    "{\"3\":{\"class_type\":\"KSampler\",\"inputs\":{\"positive\":[\"5\",0],\"negative\":[\"6\",0]}},"
    \o "\"5\":{\"class_type\":\"CLIPTextEncode\",\"inputs\":{\"text\":\"" \o P \o "\"}},"
    \o "\"6\":{\"class_type\":\"CLIPTextEncode\",\"inputs\":{\"text\":\"" \o N \o "\"}}}"

\* Two samplers: the one at key 2 is traced first
TwoSamplersJson ==
    "{\"3\":{\"class_type\":\"KSampler\",\"inputs\":{\"positive\":[\"5\",0],\"negative\":[\"6\",0]}},"
    \o "\"2\":{\"class_type\":\"KSampler\",\"inputs\":{\"positive\":[\"6\",0],\"negative\":[\"5\",0]}},"
    \o "\"5\":{\"class_type\":\"CLIPTextEncode\",\"inputs\":{\"text\":\"a red fox\"}},"
    \o "\"6\":{\"class_type\":\"CLIPTextEncode\",\"inputs\":{\"text\":\"blurry\"}}}"

\* A sampler whose positive input runs into the cycle 4 -> 5 -> 4
CyclicJson ==
    "{\"3\":{\"class_type\":\"KSampler\",\"inputs\":{\"positive\":[\"4\",0]}},"
    \o "\"4\":{\"class_type\":\"Reroute\",\"inputs\":{\"x\":[\"5\",0]}},"
    \o "\"5\":{\"class_type\":\"Reroute\",\"inputs\":{\"x\":[\"4\",0]}}}"

\* A combiner in front of the sampler
CombineJson ==
    "{\"3\":{\"class_type\":\"KSampler\",\"inputs\":{\"conditioning\":[\"4\",0]}},"
    \o "\"4\":{\"class_type\":\"ConditioningConcat\",\"inputs\":{\"text_a\":[\"5\",0],\"text_b\":[\"6\",0]}},"
    \o "\"5\":{\"class_type\":\"Reroute\",\"inputs\":{\"x\":\"foo\"}},"
    \o "\"6\":{\"class_type\":\"Reroute\",\"inputs\":{\"x\":\"bar\"}}}"

UiJson ==
    "{\"nodes\":[{\"id\":1,\"type\":\"CLIPTextEncode\",\"widgets_values\":[\"a valid prompt string\"]}],\"links\":[]}"

ShortJson == "{\"3\":{\"class_type\":\"KSampler\",\"inputs\":{\"positive\":\"a cat\"}}}"

ExtraJson == "{\"extra\":\"data here\"}"

PromptTexts ==
    { ExampleJson("a red fox", "blurry"), ExampleJson(" a red fox ", "blurry\\n"),
      ExampleJson("x", "blurry"), ExampleJson("a red fox", ""),
      TwoSamplersJson, CyclicJson, CombineJson, "\n " \o ShortJson,
      "{\"3\":", "hello", "", "[1]", "null" }

MetaChunks ==
    {TextChunk("tEXt", "prompt", <<>>, t) : t \in PromptTexts}
    \cup { TextChunk("tEXt", "workflow", <<>>, UiJson),
           TextChunk("tEXt", "workflow", <<>>, ExtraJson),
           TextChunk("iTXt", "prompt", <<0, 0, 0, 0>>, ExampleJson("a red fox", "blurry")),
           TextChunk("zTXt", "prompt", <<>>, ShortJson),
           TextChunk("tEXt", "Comment", <<>>, ShortJson),
           DataChunk("tEXt", Bytes("prompt" \o ShortJson)),
           DataChunk("IDAT", <<120, 156, 0, 255>>) }

ChunkRuns == UNION {[1..n -> MetaChunks] : n \in 0..MaxChunks}

\* Signature, IHDR, a run of chunks, IEND
PngFile(run) == Signature \o ChunksBytes(<<IHDR>> \o run \o <<IEND>>)

\* The files cut short at every offset after the signature
CutBases ==
    { <<TextChunk("tEXt", "prompt", <<>>, ShortJson)>>, <<>>,
      <<TextChunk("tEXt", "workflow", <<>>, ExtraJson), TextChunk("tEXt", "prompt", <<>>, "")>> }

\* Files that are no PNG
NotPng ==
    { <<>>, <<137, 80, 78>>, <<255, 216, 255, 224, 0, 16, 74, 70, 73, 70>>,
      <<80, 78, 71, 137>> \o ChunksBytes(<<IHDR, IEND>>),
      <<0, 0, 0, 0>> \o ChunksBytes(<<TextChunk("tEXt", "prompt", <<>>, ShortJson)>>) }

\* What the program is not told: the chunks the file was built from, with
\* the length of their payloads, and where it was cut (0: not cut)
Describe(c) == [type |-> c.type, keyword |-> c.keyword, text |-> c.text, len |-> Len(c.payload)]

RECURSIVE DescribeAll(_)
DescribeAll(cs) == IF cs = <<>> THEN <<>> ELSE <<Describe(Head(cs))>> \o DescribeAll(Tail(cs))

FileInput(chunks, cut, bytes) ==
    [entry |-> "parsePNG", data |-> JUndef, chunks |-> DescribeAll(chunks), cut |-> cut,
     bytes |-> bytes]

PngInputs ==
    {FileInput(<<IHDR>> \o run \o <<IEND>>, 0, PngFile(run)) : run \in ChunkRuns}
    \cup {FileInput(<<>>, 0, Signature)}
    \cup UNION {{FileInput(<<IHDR>> \o run \o <<IEND>>, cut, SubSeq(PngFile(run), 1, cut)) :
                    cut \in (Len(Signature) + 1)..(Len(PngFile(run)) - 1)} : run \in CutBases}
    \cup {FileInput(<<>>, 0, b) : b \in NotPng}

-----------------------------------------------------------------------------
(* parsePNG applied to a file *)

InitPNG ==
    /\ \E i \in PngInputs :
          /\ input = [entry |-> i.entry, data |-> i.data, chunks |-> i.chunks, cut |-> i.cut]
          /\ buffer = i.bytes
    /\ pc = "png_sig"
    /\ caller = "parsePNG"
    /\ data = JUndef
    /\ offset = 0
    /\ foundText = <<>>
    /\ rawJson = ""
    /\ nodesMap = JObj(<<>>)
    /\ isApiFormat = FALSE
    /\ samplers = <<>>
    /\ si = 0
    /\ stack = <<>>
    /\ phase = ""
    /\ pos = JNull
    /\ result = EmptyResult
    /\ maxDepth = 0
    /\ maxRead = -1
    /\ walked = 0
    /\ outcome = Pending
    /\ mp4 = NoScan
    /\ NoApp

NextPNG ==
    \/ PNG_CheckSignature
    \/ PNG_WalkChunk
    \/ PNG_SelectRaw
    \/ PNG_ParseRaw
    \/ EP_Unwrap
    \/ EP_BuildMap
    \/ EP_FindSamplers
    \/ EP_TraceSampler
    \/ RI_Enter
    \/ RI_Call
    \/ RI_Return
    \/ EP_TraceConditioning
    \/ EP_TraceNegative
    \/ EP_TraceAssign
    \/ EP_TraceDone
    \/ EP_CollectLeaves
    \/ PNG_Return

SpecPNG == InitPNG /\ [][NextPNG]_vars

-----------------------------------------------------------------------------
(* parseMP4: the scan of a video file for embedded JSON *)

FILE_LIMIT_FOR_FULL_SCAN == 104857600

SCAN_CHUNK_SIZE == 20971520

\* The brace matching gives up 10 MiB after the anchor
BraceScanLimit == 10485760

UnsupportedType == "Unsupported file type. Please use PNG or MP4."
NoMetadataMP4 == "Could not find recognizable ComfyUI metadata in MP4."

\* The elements a..b of a sequence or a string, as far as there are any
Mid(s, a, b) ==
    IF Max(a, 1) > Min(b, Len(s)) THEN SubSeq(s, 1, 0) ELSE SubSeq(s, Max(a, 1), Min(b, Len(s)))

\* The content of a file is a sequence of segments, each either a run of
\* `zeros` zero bytes or the bytes listed.
SegLen(seg) == seg.zeros + Len(seg.bytes)

RECURSIVE FileSize(_)
FileSize(segs) == IF segs = <<>> THEN 0 ELSE SegLen(Head(segs)) + FileSize(Tail(segs))

\* The part of a segment between the offsets a (included) and b (excluded)
SegSlice(seg, a, b) ==
    IF seg.zeros > 0
    THEN [zeros |-> Max(0, Min(b, seg.zeros) - Max(a, 0)), bytes |-> <<>>]
    ELSE [zeros |-> 0, bytes |-> Mid(seg.bytes, Max(a, 0) + 1, Min(b, Len(seg.bytes)))]

\* Blob.prototype.slice(a, b)
RECURSIVE FileSlice(_, _, _)
FileSlice(segs, a, b) ==
    IF segs = <<>> THEN <<>>
    ELSE <<SegSlice(Head(segs), a, b)>>
            \o FileSlice(Tail(segs), a - SegLen(Head(segs)), b - SegLen(Head(segs)))

\* Blob.prototype.arrayBuffer(), as the bytes themselves
RECURSIVE BytesOf(_)
BytesOf(segs) ==
    IF segs = <<>> THEN <<>>
    ELSE (IF Head(segs).zeros > 0 THEN [i \in 1..Head(segs).zeros |-> 0] ELSE Head(segs).bytes)
            \o BytesOf(Tail(segs))

\* A decoded text is a sequence of pieces, each either a run of `zeros` NUL
\* characters or the string s.
PieceLen(p) == p.zeros + Len(p.s)

RECURSIVE TextLen(_)
TextLen(pieces) == IF pieces = <<>> THEN 0 ELSE PieceLen(Head(pieces)) + TextLen(Tail(pieces))

\* TextDecoder.decode of the bytes of the segments
RECURSIVE DecodeSegs(_)
DecodeSegs(segs) ==
    IF segs = <<>> THEN <<>>
    ELSE <<[zeros |-> Head(segs).zeros, s |-> Decode(Head(segs).bytes)]>>
            \o DecodeSegs(Tail(segs))

\* String concatenation: empty pieces vanish and neighbours of a kind merge
RECURSIVE Joined(_, _)
Joined(pieces, acc) ==
    IF pieces = <<>> THEN acc
    ELSE IF PieceLen(Head(pieces)) = 0 THEN Joined(Tail(pieces), acc)
    ELSE IF acc # <<>> /\ (acc[Len(acc)].zeros > 0) = (Head(pieces).zeros > 0)
         THEN Joined(Tail(pieces),
                     [acc EXCEPT ![Len(acc)] =
                         [zeros |-> @.zeros + Head(pieces).zeros, s |-> @.s \o Head(pieces).s]])
         ELSE Joined(Tail(pieces), Append(acc, Head(pieces)))

\* The mutation of the windowed read: the whole file whatever its size
ReadAll(segs) == Joined(DecodeSegs(segs), <<>>)

\* fullTextScan: the whole file below the limit, else its first and its last
\* SCAN_CHUNK_SIZE bytes
ReadText(segs) ==
    IF FileSize(segs) < FILE_LIMIT_FOR_FULL_SCAN
    THEN Joined(DecodeSegs(segs), <<>>)
    ELSE Joined(DecodeSegs(FileSlice(segs, 0, SCAN_CHUNK_SIZE))
                    \o DecodeSegs(FileSlice(segs, Max(0, FileSize(segs) - SCAN_CHUNK_SIZE),
                                            FileSize(segs))),
                <<>>)

\* The words of the search pattern: {"word":
AnchorWords ==
    { "nodes", "extra_data", "version", "prompt", "workflow", "client_id", "extra_pnginfo",
      "id", "last_node_id", "groups", "config" }

\* The pattern matches at position i of s (1-based): {"word": or {"digits":
AnchorAt(s, i) ==
    /\ Mid(s, i, i + 1) = "{\""
    /\ \/ \E w \in AnchorWords : Mid(s, i + 2, i + 3 + Len(w)) = w \o "\":"
       \/ \E k \in 1..(Len(s) - i - 3) :
             /\ \A j \in 1..k : IsDigit(Ch(s, i + 1 + j))
             /\ Mid(s, i + 2 + k, i + 3 + k) = "\":"

\* The match indices (0-based) in the pieces, the first of which is at `base`
RECURSIVE StartSet(_, _)
StartSet(pieces, base) ==
    IF pieces = <<>> THEN {}
    ELSE {base + i - 1 : i \in {j \in 1..Len(Head(pieces).s) : AnchorAt(Head(pieces).s, j)}}
            \cup StartSet(Tail(pieces), base + PieceLen(Head(pieces)))

Ascending(S) ==
    [k \in 1..Cardinality(S) |-> CHOOSE x \in S : Cardinality({y \in S : y < x}) = k - 1]

\* candidateStarts
CandidateStarts(pieces) == Ascending(StartSet(pieces, 0))

\* openBraces after the characters a..b of s, starting from depth
Balance(s, a, b, depth) ==
    depth + Cardinality({k \in a..b : Ch(s, k) = "{"}) - Cardinality({k \in a..b : Ch(s, k) = "}"})

\* A matching that ends at the first closing brace, whatever the depth
FirstClose(s, a, b, depth) ==
    IF \E k \in a..b : Ch(s, k) = "}"
    THEN CHOOSE k \in a..b : Ch(s, k) = "}" /\ \A j \in a..(k - 1) : Ch(s, j) # "}"
    ELSE 0

\* The first position in a..b of s at which openBraces is back to 0, 0 if none
CloseIn(s, a, b, depth) ==
    LET closers == {k \in a..b : Ch(s, k) = "}"}
        zero == {k \in closers : Balance(s, a, k, depth) = 0}
    IN  IF zero = {} THEN 0 ELSE CHOOSE k \in zero : \A j \in zero : k <= j

\* endIdx: the index at which the braces opened from startIdx on are closed,
\* -1 when that does not happen before scanLimit
RECURSIVE EndIdx(_, _, _, _, _)
EndIdx(pieces, base, startIdx, scanLimit, depth) ==
    IF pieces = <<>> \/ base >= scanLimit THEN -1
    ELSE IF base + PieceLen(Head(pieces)) <= startIdx \/ Head(pieces).zeros > 0
         THEN EndIdx(Tail(pieces), base + PieceLen(Head(pieces)), startIdx, scanLimit, depth)
         ELSE IF CloseIn(Head(pieces).s, Max(startIdx - base, 0) + 1,
                         Min(Len(Head(pieces).s), scanLimit - base), depth) # 0
              THEN base - 1 + CloseIn(Head(pieces).s, Max(startIdx - base, 0) + 1,
                                      Min(Len(Head(pieces).s), scanLimit - base), depth)
              ELSE EndIdx(Tail(pieces), base + PieceLen(Head(pieces)), startIdx, scanLimit,
                          Balance(Head(pieces).s, Max(startIdx - base, 0) + 1,
                                  Min(Len(Head(pieces).s), scanLimit - base), depth))

\* fullTextScan.substring(a, b): its characters other than NUL, and whether
\* it has a NUL
RECURSIVE Substring(_, _, _, _)
Substring(pieces, base, a, b) ==
    IF pieces = <<>> \/ base >= b THEN [s |-> "", nul |-> FALSE]
    ELSE IF base + PieceLen(Head(pieces)) <= a
         THEN Substring(Tail(pieces), base + PieceLen(Head(pieces)), a, b)
         ELSE [s |-> Mid(Head(pieces).s, Max(a - base, 0) + 1,
                            Min(Len(Head(pieces).s), b - base))
                        \o Substring(Tail(pieces), base + PieceLen(Head(pieces)), a, b).s,
               nul |-> Head(pieces).zeros > 0
                        \/ Substring(Tail(pieces), base + PieceLen(Head(pieces)), a, b).nul]

\* jsonStr of the candidate at startIdx, "" when the braces do not close
JsonStr(pieces, startIdx) ==
    IF EndIdx(pieces, 0, startIdx, Min(TextLen(pieces), startIdx + BraceScanLimit), 0) = -1
    THEN [s |-> "", nul |-> FALSE]
    ELSE Substring(pieces, 0, startIdx,
                   EndIdx(pieces, 0, startIdx,
                          Min(TextLen(pieces), startIdx + BraceScanLimit), 0) + 1)

AllDigits(s) == \A i \in 1..Len(s) : IsDigit(Ch(s, i))

\* StrDecimalLiteral without its sign: digits, with an optional fraction and
\* an optional exponent, or Infinity
IsDecimal(u) ==
    \/ u = "Infinity"
    \/ \E e \in 1..(Len(u) + 1) :
          /\ e <= Len(u) =>
                /\ Ch(u, e) \in {"e", "E"}
                /\ \E x \in {Mid(u, e + 1, Len(u))} :
                      \E y \in {IF Ch(x, 1) \in {"+", "-"} THEN Mid(x, 2, Len(x)) ELSE x} :
                          y # "" /\ AllDigits(y)
          /\ \E m \in {Mid(u, 1, e - 1)} :
                \/ m # "" /\ AllDigits(m)
                \/ \E d \in 1..Len(m) :
                      /\ Ch(m, d) = "." /\ Len(m) > 1
                      /\ AllDigits(Mid(m, 1, d - 1)) /\ AllDigits(Mid(m, d + 1, Len(m)))

\* The digits of a literal with a radix prefix: 0x, 0o, 0b
IsRadix(t) ==
    /\ Len(t) > 2 /\ Ch(t, 1) = "0"
    /\ \/ /\ Ch(t, 2) \in {"x", "X"}
          /\ \A i \in 3..Len(t) : Includes("0123456789abcdefABCDEF", Ch(t, i))
       \/ /\ Ch(t, 2) \in {"o", "O"}
          /\ \A i \in 3..Len(t) : Includes("01234567", Ch(t, i))
       \/ /\ Ch(t, 2) \in {"b", "B"}
          /\ \A i \in 3..Len(t) : Includes("01", Ch(t, i))

\* !isNaN(Number(k)) for a string k
IsNumeric(k) ==
    \E t \in {Trim(k)} :
        \/ t = ""
        \/ IsRadix(t)
        \/ IsDecimal(IF Ch(t, 1) \in {"+", "-"} THEN Mid(t, 2, Len(t)) ELSE t)

\* !!parsed.nodes && Array.isArray(parsed.nodes)
IsUI(parsed) == Truthy(Get(parsed, "nodes")) /\ IsArr(Get(parsed, "nodes"))

\* The keys at which the callback of some() answers true, by position
ApiHits(parsed) ==
    {i \in 1..Len(ObjectKeys(parsed)) :
        /\ IsNumeric(ObjectKeys(parsed)[i])
        /\ ~IsNullish(ObjectValues(parsed)[i])
        /\ \/ Truthy(Get(ObjectValues(parsed)[i], "inputs"))
           \/ Truthy(Get(ObjectValues(parsed)[i], "class_type"))}

\* The keys at which the callback of some() throws: parsed[k] is null
ApiNulls(parsed) ==
    {i \in 1..Len(ObjectKeys(parsed)) :
        IsNumeric(ObjectKeys(parsed)[i]) /\ IsNullish(ObjectValues(parsed)[i])}

\* The evaluation of isAPI throws a TypeError
IsAPIThrows(parsed) ==
    /\ ~IsUI(parsed) /\ TypeofObject(parsed)
    /\ \E n \in ApiNulls(parsed) : \A h \in ApiHits(parsed) : n < h

IsAPI(parsed) == ~IsUI(parsed) /\ TypeofObject(parsed) /\ ApiHits(parsed) # {}

IsWrapper(parsed) ==
    \/ Truthy(Get(parsed, "prompt"))
    \/ Truthy(Get(parsed, "workflow"))
    \/ Truthy(Get(parsed, "extra_pnginfo"))

\* A gate that also lets through whatever has an extra_data field
GateWithExtraData(parsed) ==
    {f \in {"api", "ui", "wrapper"} :
        \/ f = "api" /\ IsAPI(parsed)
        \/ f = "ui" /\ IsUI(parsed)
        \/ f = "wrapper" /\ (IsWrapper(parsed) \/ Truthy(Get(parsed, "extra_data")))}

\* Which of isAPI, isUI, isWrapper hold: the candidate goes on when any does
Gate(parsed) ==
    {f \in {"api", "ui", "wrapper"} :
        \/ f = "api" /\ IsAPI(parsed)
        \/ f = "ui" /\ IsUI(parsed)
        \/ f = "wrapper" /\ IsWrapper(parsed)}

\* What the examination of a candidate comes to before extractPrompts is
\* called
Verdict(json, parsed) ==
    IF json.s = "" THEN "unmatched"
    ELSE IF json.nul \/ ~parsed.ok THEN "unparsed"
    ELSE IF IsAPIThrows(parsed.v) THEN "throw"
    ELSE IF Gate(parsed.v) = {} THEN "reject"
    ELSE "accept"

\* The entry of the record of candidates
Seen(startIdx, json, parsed) ==
    [start |-> startIdx, raw |-> json.s, verdict |-> Verdict(json, parsed),
     value |-> IF ~json.nul /\ parsed.ok THEN parsed.v ELSE JNull,
     flags |-> IF Verdict(json, parsed) = "accept" THEN Gate(parsed.v) ELSE {},
     extracted |-> <<>>]

\* parseComfyMetadata: the choice of the parser by type and name
IsPngFile(file) == StartsWith(file.type, "image/png") \/ EndsWith(file.name, ".png")
IsMp4File(file) == StartsWith(file.type, "video/mp4") \/ EndsWith(file.name, ".mp4")

\* A choice that goes by the type alone
ByTypeOnly(file) ==
    IF StartsWith(file.type, "image/png") THEN "parsePNG"
    ELSE IF StartsWith(file.type, "video/mp4") THEN "parseMP4" ELSE ""

Parser(file) ==
    IF IsPngFile(file) THEN "parsePNG" ELSE IF IsMp4File(file) THEN "parseMP4" ELSE ""

Dispatch ==
    /\ pc = "dispatch"
    /\ IF Parser(input.file) = "parsePNG"
       THEN /\ pc' = "png_sig" /\ caller' = "parsePNG"
            /\ buffer' = BytesOf(input.file.segs) /\ outcome' = outcome
       ELSE IF Parser(input.file) = "parseMP4"
            THEN pc' = "mp4_read" /\ caller' = "parseMP4" /\ UNCHANGED <<buffer, outcome>>
            ELSE /\ pc' = "done" /\ outcome' = Thrown(UnsupportedType)
                 /\ UNCHANGED <<buffer, caller>>
    /\ UNCHANGED <<app, input, mp4, offset, foundText, rawJson, data, nodesMap, isApiFormat,
                   samplers, si, stack, phase, pos, result, maxDepth, maxRead, walked>>

\* The text to scan and the candidate starts
MP4_Read ==
    /\ pc = "mp4_read"
    /\ mp4' = [text |-> ReadText(input.file.segs),
               starts |-> CandidateStarts(ReadText(input.file.segs)),
               ci |-> 1, flags |-> {}, seen |-> <<>>, best |-> <<>>, fallback |-> <<>>]
    /\ pc' = "mp4_loop"
    /\ UNCHANGED <<app, input, buffer, offset, foundText, rawJson, data, nodesMap, isApiFormat,
                   samplers, si, stack, phase, pos, result, maxDepth, maxRead, walked, caller,
                   outcome>>

\* One candidate: brace matching, JSON.parse and the gate; extractPrompts is
\* called on what passes
MP4_Candidate ==
    /\ pc = "mp4_loop"
    /\ mp4.ci <= Len(mp4.starts)
    /\ \E json \in {JsonStr(mp4.text, mp4.starts[mp4.ci])} :
       \E parsed \in {JsonParse(json.s)} :
       \E seen \in {Seen(mp4.starts[mp4.ci], json, parsed)} :
          IF seen.verdict = "accept"
          THEN /\ pc' = "ep_unwrap"
               /\ rawJson' = json.s
               /\ data' = parsed.v
               /\ mp4' = [mp4 EXCEPT !.flags = seen.flags, !.seen = Append(@, seen)]
          ELSE /\ pc' = "mp4_loop"
               /\ mp4' = [mp4 EXCEPT !.ci = @ + 1, !.flags = {}, !.seen = Append(@, seen)]
               /\ UNCHANGED <<rawJson, data>>
    /\ nodesMap' = JObj(<<>>)
    /\ isApiFormat' = FALSE
    /\ samplers' = <<>>
    /\ si' = 0
    /\ stack' = <<>>
    /\ phase' = ""
    /\ pos' = JNull
    /\ result' = EmptyResult
    /\ UNCHANGED <<app, input, buffer, offset, foundText, maxDepth, maxRead, walked, caller,
                   outcome>>

\* The catch block: extractPrompts threw, the next candidate is tried
MP4_Catch ==
    /\ pc = "mp4_catch"
    /\ pc' = "mp4_loop"
    /\ mp4' = [mp4 EXCEPT !.ci = @ + 1, !.flags = {},
                          !.seen[Len(mp4.seen)].verdict = "caught"]
    /\ UNCHANGED <<app, input, buffer, offset, foundText, rawJson, data, nodesMap, isApiFormat,
                   samplers, si, stack, phase, pos, result, maxDepth, maxRead, walked, caller,
                   outcome>>

\* The result object of a candidate
ResultOf(raw, extracted) ==
    [raw |-> raw, summary |-> extracted.all, positivePrompt |-> JStr(extracted.positive),
     negativePrompt |-> JStr(extracted.negative)]

\* A priority logic that is content with the first candidate
TakeFirst(flags, extracted) == TRUE

\* isAPI && (extracted.positive || extracted.negative)
GoldStandard(flags, extracted) ==
    "api" \in flags /\ (extracted.positive # "" \/ extracted.negative # "")

\* extractPrompts returned: the priority logic
MP4_Result ==
    /\ pc = "mp4_result"
    /\ IF GoldStandard(mp4.flags, result)
       THEN /\ pc' = "done"
            /\ outcome' = Returned(ResultOf(rawJson, result))
            /\ mp4' = [mp4 EXCEPT !.seen[Len(mp4.seen)].extracted =
                                        <<ResultOf(rawJson, result)>>]
       ELSE /\ pc' = "mp4_loop"
            /\ outcome' = outcome
            /\ mp4' = [mp4 EXCEPT
                  !.ci = @ + 1,
                  !.flags = {},
                  !.seen[Len(mp4.seen)].extracted = <<ResultOf(rawJson, result)>>,
                  !.best = IF "api" \in mp4.flags /\ mp4.best = <<>>
                           THEN <<ResultOf(rawJson, result)>> ELSE @,
                  !.fallback =
                      IF ~("api" \in mp4.flags /\ mp4.best = <<>>)
                         /\ mp4.flags \cap {"ui", "wrapper"} # {} /\ mp4.fallback = <<>>
                      THEN <<ResultOf(rawJson, result)>> ELSE @]
    /\ UNCHANGED <<app, input, buffer, offset, foundText, rawJson, data, nodesMap, isApiFormat,
                   samplers, si, stack, phase, pos, result, maxDepth, maxRead, walked, caller>>

\* After the loop: the best result, the fallback, or the error
MP4_Finish ==
    /\ pc = "mp4_loop"
    /\ mp4.ci > Len(mp4.starts)
    /\ pc' = "done"
    /\ outcome' = IF mp4.best # <<>> THEN Returned(mp4.best[1])
                  ELSE IF mp4.fallback # <<>> THEN Returned(mp4.fallback[1])
                  ELSE Thrown(NoMetadataMP4)
    /\ UNCHANGED <<app, input, mp4, buffer, offset, foundText, rawJson, data, nodesMap, isApiFormat,
                   samplers, si, stack, phase, pos, result, maxDepth, maxRead, walked, caller>>

-----------------------------------------------------------------------------
(* Inputs of parseComfyMetadata: files with a type and a name *)

Zeros(n) == [zeros |-> n, bytes |-> <<>>]
Text(s) == [zeros |-> 0, bytes |-> Bytes(s)]

ApiNoPromptJson == "{\"7\":{\"class_type\":\"VAEDecode\",\"inputs\":{\"samples\":[\"3\",0]}}}"
WrapperJson == "{\"prompt\":" \o ExampleJson("foo", "bar ") \o ",\"workflow\":" \o UiJson \o "}"
BadJson == "{\"prompt\":{\"3\":}}"
OpenJson == "{\"version\":{\"a\":1"
CloseJson == "}}"
PlainJson == "{\"version\":1}"
ExtraDataJson == "{\"extra_data\":{\"x\":1}}"
NamedKeyJson == "{\"config\":{\"class_type\":\"KSampler\",\"inputs\":{\"positive\":\"a dog\"}}}"
NullKeyJson == "{\"1\":null,\"prompt\":{\"text\":\"hello\"}}"
NullNodeJson == "{\"prompt\":{\"3\":null}}"
EmptyKeyJson == "{\"id\":1,\"\":{\"inputs\":{\"text\":\"hidden text\"}}}"
FalsyJson == "{\"workflow\":0,\"prompt\":\"\"}"
ApiAndWrapperJson == "{\"9\":{\"class_type\":\"SaveImage\"},\"workflow\":\"named\"}"

Mp4Texts ==
    { ShortJson, ApiNoPromptJson, UiJson, WrapperJson, BadJson, OpenJson, CloseJson,
      PlainJson, ExtraDataJson, NamedKeyJson, NullKeyJson, NullNodeJson, EmptyKeyJson,
      FalsyJson, ApiAndWrapperJson, CyclicJson }

\* What the program is not told: the texts a file was built from, and where
\* they are
Part(s, at) == [text |-> s, at |-> at]

SmallMp4 ==
    {[segs |-> <<Zeros(8), Text(t)>>, parts |-> <<Part(t, 8)>>] : t \in Mp4Texts}
    \cup {[segs |-> <<Zeros(8), Text(t1), Zeros(4), Text(t2)>>,
           parts |-> <<Part(t1, 8), Part(t2, 12 + Len(t1))>>] :
            t1 \in Mp4Texts, t2 \in Mp4Texts}

StartJson == "{\"3\":{\"class_type\":\"KSampler\",\"inputs\":{\"positive\":\"at the start\"}}}"
MiddleJson == "{\"3\":{\"class_type\":\"KSampler\",\"inputs\":{\"positive\":\"in the middle\"}}}"
EndJson == "{\"3\":{\"class_type\":\"KSampler\",\"inputs\":{\"negative\":\"at the end\"}}}"

\* A file of `size` bytes with s at its start, m at the offset `at` and e at
\* its end
Layout(size, s, m, at, e) ==
    [segs |-> <<Text(s), Zeros(at - Len(s)), Text(m), Zeros(size - at - Len(m) - Len(e)),
                Text(e)>>,
     parts |-> <<Part(s, 0), Part(m, at), Part(e, size - Len(e))>>]

MiB == 1024 * 1024

FileSizes == {60 * MiB, 100 * MiB - 1, 100 * MiB, 120 * MiB}

\* Offsets of the middle text in a file of 120 MiB: in the middle, across the
\* end of the first window, across the start of the last one, and just inside
\* either
Offsets ==
    { 60 * MiB, 20 * MiB - 5, 20 * MiB - 20, 20 * MiB - Len(MiddleJson), 100 * MiB - 5,
      100 * MiB - 20, 100 * MiB, 20 * MiB, 100 * MiB - Len(MiddleJson) }

SeamHead == "{\"3\":{\"class_type\":\"KSampler\",\"inputs\":{\"positive\":\"spliced"
SeamTail == " text\"}}}"

\* A file of `size` bytes with h `gap` bytes before the end of its first
\* SCAN_CHUNK_SIZE bytes and t at the start of its last SCAN_CHUNK_SIZE bytes
Seam(size, h, gap, t) ==
    [segs |-> <<Zeros(SCAN_CHUNK_SIZE - gap - Len(h)), Text(h),
                Zeros(gap + size - 2 * SCAN_CHUNK_SIZE), Text(t),
                Zeros(SCAN_CHUNK_SIZE - Len(t))>>,
     parts |-> <<Part(h, SCAN_CHUNK_SIZE - gap - Len(h)), Part(t, size - SCAN_CHUNK_SIZE)>>]

SeamMp4 ==
    {Seam(size, ht[1], gap, ht[2]) :
        size \in {100 * MiB, 120 * MiB}, gap \in {0, 3},
        ht \in {<<SeamHead, SeamTail>>, <<OpenJson, CloseJson>>, <<StartJson, EndJson>>}}

BigMp4 ==
    {Layout(size, s, m, size \div 2, e) :
        size \in FileSizes, s \in {"", StartJson, UiJson, OpenJson},
        m \in {"", MiddleJson}, e \in {"", EndJson, CloseJson}}
    \cup {Layout(120 * MiB, s, MiddleJson, at, e) :
            at \in Offsets, s \in {"", UiJson}, e \in {"", EndJson}}
    \cup SeamMp4

Mp4File(f) ==
    [entry |-> "parseComfyMetadata", data |-> JUndef, chunks |-> <<>>, cut |-> 0,
     file |-> [type |-> "video/mp4", name |-> "clip.mp4", segs |-> f.segs],
     parts |-> f.parts]

PngAsFile(i) ==
    [entry |-> "parseComfyMetadata", data |-> JUndef, chunks |-> i.chunks, cut |-> i.cut,
     file |-> [type |-> "image/png", name |-> "image.png",
               segs |-> <<[zeros |-> 0, bytes |-> i.bytes]>>],
     parts |-> <<>>]

\* Types and names that do and do not say what the file is
Declared ==
    { <<"image/png", "a.png">>, <<"image/png", "upload">>, <<"", "a.png">>, <<"", "b.PNG">>,
      <<"image/jpeg", "a.jpg">>, <<"video/mp4", "a.png">>, <<"image/png", "a.mp4">>,
      <<"", "a.mp4">>, <<"video/mp4", "clip">>, <<"video/mp4; codecs=avc1", "v.mov">>,
      <<"text/plain", "notes.txt">>, <<"", "">>, <<"video/quicktime", "v.mov">>,
      <<"application/octet-stream", "png">> }

Contents ==
    { [segs |-> <<Text(ShortJson)>>, parts |-> <<Part(ShortJson, 0)>>],
      [segs |-> <<[zeros |-> 0,
                   bytes |-> PngFile(<<TextChunk("tEXt", "prompt", <<>>, ShortJson)>>)]>>,
       parts |-> <<>>] }

DeclaredFiles ==
    {[entry |-> "parseComfyMetadata", data |-> JUndef, chunks |-> <<>>, cut |-> 0,
      file |-> [type |-> d[1], name |-> d[2], segs |-> c.segs], parts |-> c.parts] :
        d \in Declared, c \in Contents}

FileInputs ==
    {Mp4File(f) : f \in SmallMp4 \cup BigMp4}
    \cup {PngAsFile(i) : i \in {j \in PngInputs : j.cut = 0}}
    \cup DeclaredFiles

-----------------------------------------------------------------------------
(* parseComfyMetadata applied to a file *)

InitFile ==
    /\ input \in FileInputs
    /\ pc = "dispatch"
    /\ caller = "none"
    /\ buffer = <<>>
    /\ data = JUndef
    /\ offset = 0
    /\ foundText = <<>>
    /\ rawJson = ""
    /\ nodesMap = JObj(<<>>)
    /\ isApiFormat = FALSE
    /\ samplers = <<>>
    /\ si = 0
    /\ stack = <<>>
    /\ phase = ""
    /\ pos = JNull
    /\ result = EmptyResult
    /\ maxDepth = 0
    /\ maxRead = -1
    /\ walked = 0
    /\ outcome = Pending
    /\ mp4 = NoScan
    /\ NoApp

NextFile ==
    \/ Dispatch
    \/ PNG_CheckSignature
    \/ PNG_WalkChunk
    \/ PNG_SelectRaw
    \/ PNG_ParseRaw
    \/ PNG_Return
    \/ MP4_Read
    \/ MP4_Candidate
    \/ MP4_Catch
    \/ MP4_Result
    \/ MP4_Finish
    \/ EP_Unwrap
    \/ EP_BuildMap
    \/ EP_FindSamplers
    \/ EP_TraceSampler
    \/ RI_Enter
    \/ RI_Call
    \/ RI_Return
    \/ EP_TraceConditioning
    \/ EP_TraceNegative
    \/ EP_TraceAssign
    \/ EP_TraceDone
    \/ EP_CollectLeaves

SpecFile == InitFile /\ [][NextFile]_vars

-----------------------------------------------------------------------------
(* App: the folder tree of projects and its handlers. Each handler is an
   async function: it reads the projects of the render it was created in,
   waits on the database, and then updates the state; other handlers may be
   called while it waits. The name and createdAt of a project are left out. *)

\* The ids a run can give out, and how many handler calls may wait at once
MaxProjects == 3
MaxCalls == 2

\* parentId: null
NoParent == "null"

\* uuidv4(): an id never given before
Uuid(n) == <<"p1", "p2", "p3", "p4", "p5">>[n]

\* db.saveProject: put by the key id
SaveProject(stored, project) == {p \in stored : p.id # project.id} \cup {project}

\* projects.find(p => p.id === id): the project in a sequence of one, or none
FindProject(ps, id) ==
    IF \E i \in 1..Len(ps) : ps[i].id = id
    THEN <<ps[CHOOSE i \in 1..Len(ps) : ps[i].id = id /\ \A j \in 1..(i - 1) : ps[j].id # id]>>
    ELSE <<>>

\* prev.map(p => p.id === id ? updated : p)
Replace(prev, id, updated) == [i \in 1..Len(prev) |-> IF prev[i].id = id THEN updated ELSE prev[i]]

\* A move that is never refused
NoCycleDetection(ps, current, projectId, steps) == "clear"

\* The loop of the cycle detection from `current` upwards: "found" when it
\* meets projectId, "clear" when it ends at a root or at a missing parent,
\* "loop" when it would not end
RECURSIVE CycleDetection(_, _, _, _)
CycleDetection(ps, current, projectId, steps) ==
    IF current = <<>> THEN "clear"
    ELSE IF current[1].id = projectId THEN "found"
    ELSE IF current[1].parentId = NoParent THEN "clear"
    ELSE IF steps = 0 THEN "loop"
    ELSE CycleDetection(ps, FindProject(ps, current[1].parentId), projectId, steps - 1)

\* getDescendantIds: the children's ids, then the descendants of each child;
\* `depth` is the nesting left before the call stack is exhausted, which is
\* marked by the id "overflow"
RECURSIVE GetDescendantIds(_, _, _)
GetDescendantIds(rootId, allProjects, depth) ==
    LET children == SelectSeq(allProjects, LAMBDA p : p.parentId = rootId)
        RECURSIVE Each(_)
        Each(cs) ==
            IF cs = <<>> THEN <<>>
            ELSE GetDescendantIds(Head(cs).id, allProjects, depth - 1) \o Each(Tail(cs))
    IN  IF depth = 0 THEN <<"overflow">>
        ELSE [i \in 1..Len(children) |-> children[i].id] \o Each(children)

Ids(seq) == {seq[i] : i \in 1..Len(seq)}

\* A call that waits on the database: what it keeps of the render it was
\* called in
Waiting(op, stage, project, parent, ids, active) ==
    [op |-> op, stage |-> stage, project |-> project, parent |-> parent, ids |-> ids,
     active |-> active]

\* handleMoveProject up to its first await: the checks, and the save of the
\* moved project. When the loop of the cycle detection would not end the
\* handler never gets there.
HandleMoveProject(projectId, newParentId) ==
    /\ Cardinality(calls) < MaxCalls
    /\ projectId # newParentId
    /\ CycleDetection(projects, FindProject(projects, newParentId), projectId, Len(projects)) = "clear"
    /\ FindProject(projects, projectId) # <<>>
    /\ store' = SaveProject(store, [FindProject(projects, projectId)[1] EXCEPT !.parentId = newParentId])
    /\ calls' = calls \cup
          {Waiting("move", "saved",
                   <<[FindProject(projects, projectId)[1] EXCEPT !.parentId = newParentId]>>,
                   IF newParentId # NoParent /\ FindProject(projects, newParentId) # <<>>
                      /\ ~FindProject(projects, newParentId)[1].isOpen
                   THEN FindProject(projects, newParentId) ELSE <<>>,
                   <<>>, "")}
    /\ UNCHANGED <<projects, activeProjectId, uuids, parser>>

\* handleMoveProject after the save: the project is replaced in the state,
\* and a closed parent is saved as open
MoveSetProjects(c) ==
    /\ c \in calls /\ c.op = "move" /\ c.stage = "saved"
    /\ projects' = Replace(projects, c.project[1].id, c.project[1])
    /\ IF c.parent # <<>>
       THEN /\ store' = SaveProject(store, [c.parent[1] EXCEPT !.isOpen = TRUE])
            /\ calls' = (calls \ {c}) \cup {[c EXCEPT !.stage = "parent"]}
       ELSE /\ store' = store
            /\ calls' = calls \ {c}
    /\ UNCHANGED <<activeProjectId, uuids, parser>>

\* handleMoveProject after the save of the parent: the parent is replaced in
\* the state
MoveOpenParent(c) ==
    /\ c \in calls /\ c.op = "move" /\ c.stage = "parent"
    /\ projects' = Replace(projects, c.parent[1].id, [c.parent[1] EXCEPT !.isOpen = TRUE])
    /\ calls' = calls \ {c}
    /\ UNCHANGED <<activeProjectId, store, uuids, parser>>

\* handleCreateProject up to its first await: the new project is saved
HandleCreateProject(parentId) ==
    /\ Cardinality(calls) < MaxCalls
    /\ uuids < MaxProjects
    /\ uuids' = uuids + 1
    /\ store' = SaveProject(store, [id |-> Uuid(uuids + 1), parentId |-> parentId, isOpen |-> TRUE])
    /\ calls' = calls \cup
          {Waiting("create", "saved",
                   <<[id |-> Uuid(uuids + 1), parentId |-> parentId, isOpen |-> TRUE]>>,
                   IF parentId # NoParent THEN FindProject(projects, parentId) ELSE <<>>,
                   <<>>, "")}
    /\ UNCHANGED <<projects, activeProjectId, parser>>

\* handleCreateProject after the save: the new project is appended to the
\* state with its parent opened, the parent is saved as open, and without a
\* parent to save the new project becomes the active one
CreateSetProjects(c) ==
    /\ c \in calls /\ c.op = "create" /\ c.stage = "saved"
    /\ projects' =
          Append([i \in 1..Len(projects) |->
                     IF c.project[1].parentId # NoParent /\ projects[i].id = c.project[1].parentId
                     THEN [projects[i] EXCEPT !.isOpen = TRUE] ELSE projects[i]],
                 c.project[1])
    /\ IF c.parent # <<>>
       THEN /\ store' = SaveProject(store, [c.parent[1] EXCEPT !.isOpen = TRUE])
            /\ calls' = (calls \ {c}) \cup {[c EXCEPT !.stage = "parent"]}
            /\ activeProjectId' = activeProjectId
       ELSE /\ store' = store
            /\ calls' = calls \ {c}
            /\ activeProjectId' = c.project[1].id
    /\ UNCHANGED <<uuids, parser>>

\* handleCreateProject after the save of the parent
CreateActivate(c) ==
    /\ c \in calls /\ c.op = "create" /\ c.stage = "parent"
    /\ activeProjectId' = c.project[1].id
    /\ calls' = calls \ {c}
    /\ UNCHANGED <<projects, store, uuids, parser>>

\* handleDeleteProject up to the end of its deletions, when the user
\* confirms: the project and its descendants in the projects of the render
\* are deleted from the database. When getDescendantIds exhausts the call
\* stack the handler ends there.
HandleDeleteProject(id) ==
    /\ Cardinality(calls) < MaxCalls
    /\ "overflow" \notin Ids(GetDescendantIds(id, projects, Len(projects) + 1))
    /\ store' = {p \in store : p.id \notin Ids(<<id>> \o GetDescendantIds(id, projects, Len(projects) + 1))}
    /\ calls' = calls \cup
          {Waiting("delete", "deleted", <<>>, <<>>,
                   <<id>> \o GetDescendantIds(id, projects, Len(projects) + 1),
                   IF activeProjectId \notin
                         Ids(<<id>> \o GetDescendantIds(id, projects, Len(projects) + 1))
                   THEN "keep"
                   ELSE IF \E i \in 1..Len(projects) :
                               projects[i].id \notin
                                   Ids(<<id>> \o GetDescendantIds(id, projects, Len(projects) + 1))
                        THEN SelectSeq(projects,
                                 LAMBDA p : p.id \notin
                                     Ids(<<id>> \o GetDescendantIds(id, projects,
                                                                    Len(projects) + 1)))[1].id
                        ELSE "new")}
    /\ UNCHANGED <<projects, activeProjectId, uuids, parser>>

\* handleDeleteProject after the deletions: the deleted ids are filtered out
\* of the state; when the active project was among them the first remaining
\* project of the render becomes the active one, or a new default project is
\* saved
DeleteSetProjects(c) ==
    /\ c \in calls /\ c.op = "delete" /\ c.stage = "deleted"
    /\ c.active = "new" => uuids < MaxProjects
    /\ projects' = SelectSeq(projects, LAMBDA p : p.id \notin Ids(c.ids))
    /\ IF c.active = "new"
       THEN /\ uuids' = uuids + 1
            /\ store' = SaveProject(store, [id |-> Uuid(uuids + 1), parentId |-> NoParent,
                                            isOpen |-> TRUE])
            /\ calls' = (calls \ {c}) \cup
                  {[c EXCEPT !.stage = "default",
                             !.project = <<[id |-> Uuid(uuids + 1), parentId |-> NoParent,
                                            isOpen |-> TRUE]>>]}
            /\ activeProjectId' = activeProjectId
       ELSE /\ uuids' = uuids
            /\ store' = store
            /\ calls' = calls \ {c}
            /\ activeProjectId' = IF c.active = "keep" THEN activeProjectId ELSE c.active
    /\ UNCHANGED parser

\* handleDeleteProject after the save of the new default project: it is the
\* only project of the state, and the active one
DeleteDefault(c) ==
    /\ c \in calls /\ c.op = "delete" /\ c.stage = "default"
    /\ projects' = c.project
    /\ activeProjectId' = c.project[1].id
    /\ calls' = calls \ {c}
    /\ UNCHANGED <<store, uuids, parser>>

\* What db.getProjects() finds when the App is mounted: nothing, or the
\* projects of an earlier session
StoredProjects ==
    { <<>>,
      <<[id |-> "p1", parentId |-> NoParent, isOpen |-> FALSE],
        [id |-> "p2", parentId |-> NoParent, isOpen |-> TRUE]>>,
      <<[id |-> "p1", parentId |-> NoParent, isOpen |-> TRUE],
        [id |-> "p2", parentId |-> "p1", isOpen |-> FALSE]>> }

\* The state after init(): the stored projects, or a default project
InitTree ==
    /\ \E stored \in StoredProjects :
          IF Len(stored) > 0
          THEN /\ projects = stored
               /\ store = Ids(stored)
               /\ uuids = Len(stored)
          ELSE /\ projects = <<[id |-> Uuid(1), parentId |-> NoParent, isOpen |-> TRUE]>>
               /\ store = {[id |-> Uuid(1), parentId |-> NoParent, isOpen |-> TRUE]}
               /\ uuids = 1
    /\ activeProjectId = projects[1].id
    /\ calls = {}
    /\ input = [entry |-> "App", data |-> JUndef, chunks |-> <<>>, cut |-> 0]
    /\ pc = "app"
    /\ caller = "none"
    /\ buffer = <<>>
    /\ data = JUndef
    /\ offset = 0
    /\ foundText = <<>>
    /\ rawJson = ""
    /\ nodesMap = JObj(<<>>)
    /\ isApiFormat = FALSE
    /\ samplers = <<>>
    /\ si = 0
    /\ stack = <<>>
    /\ phase = ""
    /\ pos = JNull
    /\ result = EmptyResult
    /\ maxDepth = 0
    /\ maxRead = -1
    /\ walked = 0
    /\ outcome = Pending
    /\ mp4 = NoScan

\* The projects the sidebar shows are those of the state
ProjectIds == {projects[i].id : i \in 1..Len(projects)}

NextTree ==
    \/ \E projectId \in ProjectIds, newParentId \in ProjectIds \cup {NoParent} :
          HandleMoveProject(projectId, newParentId)
    \/ \E c \in calls : MoveSetProjects(c)
    \/ \E c \in calls : MoveOpenParent(c)
    \/ \E parentId \in ProjectIds \cup {NoParent} : HandleCreateProject(parentId)
    \/ \E c \in calls : CreateSetProjects(c)
    \/ \E c \in calls : CreateActivate(c)
    \/ \E id \in ProjectIds : HandleDeleteProject(id)
    \/ \E c \in calls : DeleteSetProjects(c)
    \/ \E c \in calls : DeleteDefault(c)

SpecTree == InitTree /\ [][NextTree]_vars

-----------------------------------------------------------------------------
(* Claims *)

Threw == outcome.kind = "throw"
ReturnedOk == outcome.kind = "return"

\* The node a link value points to, undefined for any other value
LinkTarget(x) ==
    IF IsArr(x) /\ Len(x.v) = 2 THEN Get(nodesMap, ToPropertyKey(x.v[1])) ELSE JUndef

WeightSuffixes == {".safetensors", ".pt", ".ckpt"}

\* C1: cycle safety. resolveInput never exhausts the call stack, and its
\* nesting never exceeds the number of nodes of the graph.
C1_CycleSafety ==
    /\ outcome.error # StackOverflow
    /\ Len(stack) <= Len(ObjectValues(nodesMap))

\* C2: the graph resolver never raises, whatever parsed JSON value it is given.
C2_NeverRaises == ~Threw

\* C4: the leaf collection never holds a string ending in a model-weight
\* extension, nor a string shorter than 4 characters.
C4_LeafFilter ==
    \A i \in 1..Len(result.all) :
        /\ Len(result.all[i]) >= 4
        /\ \A suf \in WeightSuffixes : ~EndsWith(result.all[i], suf)

\* The strings of a node's inputs and widgets_values
NodeStrings(node) ==
    LET inputs == Get(node, "inputs")
        widgets == Get(node, "widgets_values")
    IN  {x.v : x \in {y \in {ObjectValues(inputs)[i] : i \in 1..Len(ObjectValues(inputs))} :
                        IsStr(y)}}
        \cup {x.v : x \in {y \in {ObjectValues(widgets)[i] : i \in 1..Len(ObjectValues(widgets))} :
                        IsArr(widgets) /\ IsStr(y)}}

GraphStrings == UNION {NodeStrings(ObjectValues(nodesMap)[i]) : i \in 1..Len(ObjectValues(nodesMap))}

Occurrences(list, x) == Cardinality({i \in 1..Len(list) : list[i] = x})

\* C5 as claimed: every string of the graph longer than 3 characters that does
\* not end in a model-weight extension is in the returned collection exactly once.
C5_LeafCompleteEndsWith ==
    ReturnedOk =>
        \A x \in GraphStrings :
            (Len(x) > 3 /\ \A suf \in WeightSuffixes : ~EndsWith(x, suf))
                => Occurrences(outcome.value.summary, x) = 1

\* C5 as amended: every string of the graph longer than 3 characters that does
\* not contain a model-weight extension is in the returned collection exactly once.
C5_LeafComplete ==
    ReturnedOk =>
        \A x \in GraphStrings :
            (Len(x) > 3 /\ \A suf \in WeightSuffixes : ~Includes(x, suf))
                => Occurrences(outcome.value.summary, x) = 1

\* C5 witness: a returned collection holding a string that two nodes share
C5_Witness ==
    /\ ReturnedOk
    /\ \E i, j \in 1..Len(ObjectValues(nodesMap)) :
          /\ i # j
          /\ \E x \in NodeStrings(ObjectValues(nodesMap)[i]) \cap NodeStrings(ObjectValues(nodesMap)[j]) :
                Occurrences(outcome.value.summary, x) = 1

\* The sampler's positive input links to a node whose class_type contains
\* Combine and whose conditioning_1 and conditioning_2 link to text nodes
\* holding "foo" and "bar"; pos has just been resolved.
CombinerCase ==
    /\ pc = "ri" /\ phase = "negative"
    /\ LET x == LinkTarget(InputOf(samplers[si], "positive")) IN
       /\ Truthy(x)
       /\ IsStr(Get(x, "class_type")) /\ Includes(Get(x, "class_type").v, "Combine")
       /\ InputOf(LinkTarget(InputOf(x, "conditioning_1")), "text") = JStr("foo")
       /\ InputOf(LinkTarget(InputOf(x, "conditioning_2")), "text") = JStr("bar")

\* The combiner is not also a pass-through node, holds no text of its own
\* under a priority key and carries no id field
PlainCombiner ==
    LET x == LinkTarget(InputOf(samplers[si], "positive")) IN
    /\ ~IsPassThrough(LowerType(x))
    /\ TextKeyScan(x, 1) = JUndef
    /\ ~Truthy(Get(x, "id"))

\* C6 as claimed: the combiner of "foo" and "bar" resolves to "foo\n\nbar".
C6_CombinerAnyClass == CombinerCase => pos = JStr("foo\n\nbar")

\* C6 as amended: it does when the combiner is not also a pass-through node,
\* has no string of its own under a priority key and no id field.
C6_Combiner == (CombinerCase /\ PlainCombiner) => pos = JStr("foo\n\nbar")

\* C6 witness: a plain combiner of "foo" and "bar" has been resolved
C6_Witness == CombinerCase /\ PlainCombiner /\ pos = JStr("foo\n\nbar")

\* The chunks of the file that carry metadata: text chunks with keyword
\* prompt or workflow
Qualifying(c) == c.type \in {"tEXt", "iTXt"} /\ c.keyword \in {"prompt", "workflow"}
MetaChunksOf == SelectSeq(input.chunks, Qualifying)

\* The file is signature, IHDR, chunks, IEND, and nothing is cut off
Whole == input.entry = "parsePNG" /\ input.cut = 0 /\ input.chunks # <<>>

Done == pc = "done"

\* The tEXt chunks with keyword prompt
IsPromptChunk(c) == c.type = "tEXt" /\ c.keyword = "prompt"
PromptChunks == {input.chunks[i] : i \in {j \in 1..Len(input.chunks) : IsPromptChunk(input.chunks[j])}}

\* The node a link of graph g points to
Target(g, x) == IF IsArr(x) /\ Len(x.v) = 2 THEN Get(g, ToPropertyKey(x.v[1])) ELSE JUndef

IsTextEncode(node) ==
    IsStr(Get(node, "class_type")) /\ Includes(Get(node, "class_type").v, "TextEncode")

\* The sampler nodes of graph g whose positive and negative inputs link to
\* text-encode nodes with string literals under inputs.text
TextSamplers(g) ==
    {node \in {ObjectValues(g)[i] : i \in 1..Len(ObjectValues(g))} :
        /\ Truthy(node) /\ ~ClassTypeThrows(node) /\ IsSampler(node)
        /\ IsTextEncode(Target(g, InputOf(node, "positive")))
        /\ IsStr(InputOf(Target(g, InputOf(node, "positive")), "text"))
        /\ IsTextEncode(Target(g, InputOf(node, "negative")))
        /\ IsStr(InputOf(Target(g, InputOf(node, "negative")), "text"))}

AllSamplers(g) ==
    {node \in {ObjectValues(g)[i] : i \in 1..Len(ObjectValues(g))} :
        Truthy(node) /\ ~ClassTypeThrows(node) /\ IsSampler(node)}

TextP(g, node) == InputOf(Target(g, InputOf(node, "positive")), "text").v
TextN(g, node) == InputOf(Target(g, InputOf(node, "negative")), "text").v

GraphOf(c) == JsonParse(c.text).v

\* C3 as claimed: the prompts of the result are the trimmed texts P and N of
\* the text-encode nodes the sampler of the prompt chunk links to.
C3_EndToEndAnyText ==
    (Done /\ Whole /\ ReturnedOk) =>
        \A c \in PromptChunks : \A node \in TextSamplers(GraphOf(c)) :
            /\ outcome.value.positivePrompt = JStr(Trim(TextP(GraphOf(c), node)))
            /\ outcome.value.negativePrompt = JStr(Trim(TextN(GraphOf(c), node)))

\* C3 as amended: they are when the chunk is the only metadata chunk of the
\* file, the sampler is the only sampler of the graph, and P and N have at
\* least two characters.
C3_EndToEnd ==
    (Done /\ Whole /\ ReturnedOk /\ Len(MetaChunksOf) = 1) =>
        \A c \in PromptChunks : \A node \in TextSamplers(GraphOf(c)) :
            (/\ AllSamplers(GraphOf(c)) = {node}
             /\ Len(TextP(GraphOf(c), node)) >= 2
             /\ Len(TextN(GraphOf(c), node)) >= 2)
            => /\ outcome.value.positivePrompt = JStr(Trim(TextP(GraphOf(c), node)))
               /\ outcome.value.negativePrompt = JStr(Trim(TextN(GraphOf(c), node)))

\* C3 witness: the only sampler of the only metadata chunk links to texts
\* with blanks around them, and the result holds them trimmed
C3_Witness ==
    /\ Done /\ Whole /\ ReturnedOk /\ Len(MetaChunksOf) = 1
    /\ \E c \in PromptChunks : \E node \in TextSamplers(GraphOf(c)) :
          /\ AllSamplers(GraphOf(c)) = {node}
          /\ TextP(GraphOf(c), node) = " a red fox "
          /\ Len(TextN(GraphOf(c), node)) >= 2
          /\ outcome.value.positivePrompt = JStr("a red fox")
          /\ outcome.value.negativePrompt = JStr("blurry")

\* An API-format graph: an object whose entries are nodes with a class_type
\* string and an inputs object
IsApiGraph(g) ==
    /\ g.t = "obj" /\ g.v # <<>>
    /\ \A i \in 1..Len(ObjectValues(g)) :
          /\ ObjectValues(g)[i].t = "obj"
          /\ IsStr(Get(ObjectValues(g)[i], "class_type"))
          /\ Get(ObjectValues(g)[i], "inputs").t = "obj"

ApiPromptChunks == {c \in PromptChunks : JsonParse(c.text).ok /\ IsApiGraph(GraphOf(c))}

\* C7: a file of well-formed chunks with a tEXt prompt chunk holding an
\* API-format graph J yields a result whose raw text is J up to formatting,
\* not by the malformed-JSON path.
C7_RoundTrip ==
    (Done /\ Whole /\ ApiPromptChunks # {}) =>
        /\ ReturnedOk
        /\ outcome.value.positivePrompt # JUndef
        /\ \E c \in ApiPromptChunks : JsonParse(outcome.value.raw) = JsonParse(c.text)

\* C8: on a file cut short after the signature no read goes beyond the
\* buffer, and the call ends with a result or with the range error of a
\* read beyond the end, nothing else.
C8_TruncationSafety ==
    (input.entry = "parsePNG" /\ input.cut > 0) =>
        /\ maxRead < Len(buffer)
        /\ Done => (ReturnedOk \/ outcome.error \in {DataViewRange, TypedArrayRange})

C10_NoMetadataIff ==
    (Done /\ Whole) => (outcome = Thrown(NoMetadataPNG) <=> MetaChunksOf = <<>>)

HasBraceChunk ==
    \E i \in 1..Len(MetaChunksOf) : StartsWith(Trim(MetaChunksOf[i].text), "{")

\* C10 as amended: a whole PNG without a metadata chunk fails with that
\* error, and one with a metadata chunk whose trimmed text begins with a
\* brace never does.
C10_NoMetadata ==
    (Done /\ Whole) =>
        /\ MetaChunksOf = <<>> => outcome = Thrown(NoMetadataPNG)
        /\ HasBraceChunk => outcome # Thrown(NoMetadataPNG)

\* C10 witness: the only metadata chunk holds text that begins with a brace
\* and is no JSON, and the call returned
C10_Witness ==
    /\ Done /\ Whole /\ HasBraceChunk /\ ReturnedOk
    /\ \A i \in 1..Len(MetaChunksOf) : ~JsonParse(MetaChunksOf[i].text).ok

\* C12: when the selected text of a PNG does not parse as JSON, the call
\* returns that text with an empty summary and no prompts.
C12_MalformedJson ==
    (input.entry = "parsePNG" /\ pc = "done" /\ rawJson # "" /\ ~JsonParse(rawJson).ok)
    => /\ outcome = Returned([raw |-> rawJson, summary |-> <<>>,
                              positivePrompt |-> JUndef, negativePrompt |-> JUndef])
       /\ \E i \in 1..Len(foundText) : foundText[i] = rawJson
       /\ result = EmptyResult /\ nodesMap = JObj(<<>>)

\* C12 witness: the text of a prompt chunk that is no JSON came back as raw
C12_Witness ==
    /\ Done /\ Whole /\ ReturnedOk /\ ~JsonParse(rawJson).ok
    /\ \E i \in 1..Len(MetaChunksOf) : MetaChunksOf[i].text = outcome.value.raw
    /\ outcome.value.summary = <<>>

\* The value the resolver classified has a nodes array, and the call returned
UiCase == ReturnedOk /\ input.entry = "extractPrompts" /\ IsArr(Get(data, "nodes"))

WidgetStrings(node) ==
    LET widgets == Get(node, "widgets_values") IN
    {x.v : x \in {y \in {ObjectValues(widgets)[i] : i \in 1..Len(ObjectValues(widgets))} :
                    IsArr(widgets) /\ IsStr(y)}}

InSummary(x) == \E i \in 1..Len(outcome.value.summary) : outcome.value.summary[i] = x

SamplersFound == isApiFormat /\ pc = "ep_trace" /\ si = 1

TypeHas(node, word) ==
    IsStr(Get(node, "class_type")) /\ Includes(ToLowerCase(Get(node, "class_type").v), word)

NodeSet == {ObjectValues(nodesMap)[i] : i \in 1..Len(ObjectValues(nodesMap))}
SamplerSet == {samplers[i] : i \in 1..Len(samplers)}

\* C18 as claimed: the samplers are exactly the nodes whose type contains
\* sampler or generate and none of save, load, image.
C18_SamplersNoImage ==
    SamplersFound =>
        SamplerSet = {n \in NodeSet :
                        /\ TypeHas(n, "sampler") \/ TypeHas(n, "generate")
                        /\ ~TypeHas(n, "save") /\ ~TypeHas(n, "load") /\ ~TypeHas(n, "image")}

\* C18 as amended: the samplers are exactly the nodes whose type contains
\* sampler or generate and neither save nor load.
C18_Samplers ==
    SamplersFound =>
        SamplerSet = {n \in NodeSet :
                        /\ TypeHas(n, "sampler") \/ TypeHas(n, "generate")
                        /\ ~TypeHas(n, "save") /\ ~TypeHas(n, "load")}

\* C18 witness: a generate node is a sampler, a loader beside it is not
C18_Witness ==
    /\ SamplersFound
    /\ \E n \in SamplerSet : TypeHas(n, "generate") /\ ~TypeHas(n, "sampler")
    /\ \E n \in NodeSet \ SamplerSet : TypeHas(n, "sampler") /\ TypeHas(n, "load")

\* The value of a literal input of the i-th sampler, "" when it has none
DirectInput(i, name) ==
    IF IsStr(InputOf(samplers[i], name)) THEN InputOf(samplers[i], name).v ELSE ""

\* The call returned for an API-format graph whose samplers have literal
\* positive, conditioning and negative inputs only
DirectCase ==
    /\ ReturnedOk /\ input.entry = "extractPrompts" /\ isApiFormat /\ Len(samplers) >= 1
    /\ \A i \in 1..Len(samplers) : \A name \in {"positive", "conditioning", "negative"} :
          IsStr(InputOf(samplers[i], name)) \/ InputOf(samplers[i], name) = JUndef

\* resolveInput(sampler, 'positive') || resolveInput(sampler, 'conditioning')
PosOf(i) ==
    IF DirectInput(i, "positive") # "" THEN DirectInput(i, "positive")
    ELSE DirectInput(i, "conditioning")

NegOf(i) == DirectInput(i, "negative")

\* The value at the least index that is in the set, trimmed; "" when the set is empty
TrimmedFirst(idx, positive) ==
    IF idx = {} THEN ""
    ELSE LET i == CHOOSE k \in idx : \A j \in idx : k <= j
         IN  IF positive THEN Trim(PosOf(i)) ELSE Trim(NegOf(i))

\* The number of samplers the loop has gone through when both prompts are
\* found at the earliest, all of them when they never are
StopsAt ==
    LET both == {k \in 1..Len(samplers) :
                    /\ \E i \in 1..k : Trim(PosOf(i)) # ""
                    /\ \E i \in 1..k : Trim(NegOf(i)) # ""}
    IN  IF both = {} THEN Len(samplers) ELSE CHOOSE k \in both : \A j \in both : k <= j

\* C19 as claimed: the positive prompt is the trimmed positive input of the
\* first sampler whose positive input is a non-empty string, the negative
\* prompt likewise; the loop stops once both are non-empty, and neither prompt
\* has leading or trailing whitespace.
C19_FirstNonEmptyWins ==
    DirectCase =>
        /\ outcome.value.positivePrompt
              = JStr(TrimmedFirst({i \in 1..Len(samplers) : DirectInput(i, "positive") # ""}, TRUE))
        /\ outcome.value.negativePrompt
              = JStr(TrimmedFirst({i \in 1..Len(samplers) : DirectInput(i, "negative") # ""}, FALSE))
        /\ si - 1 = StopsAt
        /\ Trim(outcome.value.positivePrompt.v) = outcome.value.positivePrompt.v
        /\ Trim(outcome.value.negativePrompt.v) = outcome.value.negativePrompt.v

\* C19 as amended: the positive prompt is the trimmed value of the first
\* sampler whose positive input, or failing that its conditioning input, is
\* non-empty after trimming, the negative prompt that of the first sampler
\* whose negative input is non-empty after trimming, "" when there is none;
\* the loop stops once both are non-empty, and neither prompt has leading or
\* trailing whitespace.
C19_FirstFoundWins ==
    DirectCase =>
        /\ outcome.value.positivePrompt
              = JStr(TrimmedFirst({i \in 1..Len(samplers) : Trim(PosOf(i)) # ""}, TRUE))
        /\ outcome.value.negativePrompt
              = JStr(TrimmedFirst({i \in 1..Len(samplers) : Trim(NegOf(i)) # ""}, FALSE))
        /\ si - 1 = StopsAt
        /\ Trim(outcome.value.positivePrompt.v) = outcome.value.positivePrompt.v
        /\ Trim(outcome.value.negativePrompt.v) = outcome.value.negativePrompt.v

\* C19 witness: the prompts came from two different samplers, the positive
\* one trimmed, and a third sampler with both inputs was never reached
C19_Witness ==
    /\ DirectCase /\ Len(samplers) = 3 /\ si = 3
    /\ NegOf(1) # "" /\ PosOf(1) = ""
    /\ PosOf(2) # Trim(PosOf(2)) /\ outcome.value.positivePrompt = JStr(Trim(PosOf(2)))
    /\ PosOf(3) # "" /\ NegOf(3) # ""
    /\ outcome.value.negativePrompt = JStr(Trim(NegOf(1)))

\* The value the claim has the resolver work on
UnwrapAsClaimed(d) ==
    IF ~IsArr(Get(d, "nodes")) /\ ~IsArr(d)
    THEN IF Get(d, "prompt").t = "obj" THEN Get(d, "prompt")
         ELSE IF Get(d, "workflow") # JUndef THEN Get(d, "workflow") ELSE d
    ELSE d

\* The value the amended claim has the resolver work on
UnwrapAmended(d) ==
    IF ~Truthy(Get(d, "nodes")) /\ ~IsArr(d)
    THEN IF Get(d, "prompt").t = "obj" THEN Get(d, "prompt")
         ELSE IF Get(d, "workflow").t \in {"obj", "arr"} THEN Get(d, "workflow") ELSE d
    ELSE d

\* The unwrapping step of a call of the resolver is over
Unwrapped == input.entry = "extractPrompts" /\ pc # "ep_unwrap" /\ ~IsNullish(input.data)

\* C20 as claimed: a value without a nodes array that is no array is replaced
\* by its prompt field when that is an object, otherwise by its workflow
\* field when it has one; any other value is worked on as it is.
C20_UnwrapAnyWorkflow == Unwrapped => data = UnwrapAsClaimed(input.data)

\* C20 as amended: a value whose nodes field is falsy and that is no array is
\* replaced by its prompt field when that is a non-array object, otherwise by
\* its workflow field when that is an object or an array; any other value is
\* worked on as it is.
C20_Unwrap == Unwrapped => data = UnwrapAmended(input.data)

\* C20 witness: a wrapper with both fields was replaced by its prompt field
C20_Witness ==
    /\ Unwrapped
    /\ Get(input.data, "prompt").t = "obj" /\ Get(input.data, "workflow").t = "obj"
    /\ Get(input.data, "prompt") # Get(input.data, "workflow")
    /\ data = Get(input.data, "prompt")

\* parseMP4 runs on the file, and its text is read
Mp4Case == input.entry = "parseComfyMetadata" /\ caller = "parseMP4"
Scanned == Mp4Case /\ pc \notin {"dispatch", "mp4_read"}
Mp4Done == Mp4Case /\ pc = "done"

\* The candidates whose examination went through the gate
PassedGate(e) == e.verdict \in {"accept", "caught"}

\* C11: a candidate that fails to parse, or throws while it is examined, is
\* skipped and the later anchors are still tried; parseMP4 fails with its "no
\* metadata" error exactly when no anchor yields an object that parses and
\* passes the gate.
C11_FailuresLocal ==
    Mp4Done =>
        /\ Threw => outcome.error = NoMetadataMP4 /\ Len(mp4.seen) = Len(mp4.starts)
        /\ \A i \in 1..Len(mp4.seen) : mp4.seen[i].start = mp4.starts[i]
        /\ Threw <=> \A i \in 1..Len(mp4.seen) : ~PassedGate(mp4.seen[i])

\* The parts of the file that hold a text
PartsOf == {input.parts[i] : i \in {j \in 1..Len(input.parts) : input.parts[j].text # ""}}

InText(s) == \E i \in 1..Len(mp4.text) : Includes(mp4.text[i].s, s)

\* The scan with a full-scan threshold and a window of the given sizes: a
\* file below the threshold is decoded whole; of a file above it the first and
\* the last `window` bytes are decoded and no more, an object at its start is
\* found, and a text outside both windows is neither scanned nor reported.
WindowedScan(threshold, window) ==
    Scanned =>
        /\ FileSize(input.file.segs) < threshold =>
              /\ TextLen(mp4.text) = FileSize(input.file.segs)
              /\ \A p \in PartsOf : InText(p.text)
        /\ FileSize(input.file.segs) > threshold =>
              /\ TextLen(mp4.text) = 2 * window
              /\ \A p \in PartsOf :
                    /\ (p.at >= window
                          /\ p.at + Len(p.text) <= FileSize(input.file.segs) - window)
                       => ~InText(p.text) /\ outcome.value.raw # p.text
                    /\ (p.at = 0 /\ p.text \in {StartJson, UiJson} /\ pc = "done")
                       => mp4.seen[1].raw = p.text /\ mp4.seen[1].verdict = "accept"

\* C13 as claimed: the threshold is 50 MiB and the window 15 MiB.
C13_WindowedScan50 == WindowedScan(50 * 1024 * 1024, 15 * 1024 * 1024)

\* C13 as amended: the threshold is 100 MiB and the window 20 MiB.
C13_WindowedScan == WindowedScan(FILE_LIMIT_FOR_FULL_SCAN, SCAN_CHUNK_SIZE)

\* C13 witness: of a file of 120 MiB with an object at its start and one in
\* its middle, the one at the start is returned
C13_Witness ==
    /\ Mp4Done /\ ReturnedOk
    /\ FileSize(input.file.segs) > FILE_LIMIT_FOR_FULL_SCAN
    /\ input.parts[1] = [text |-> StartJson, at |-> 0]
    /\ input.parts[2] = [text |-> MiddleJson, at |-> FileSize(input.file.segs) \div 2]
    /\ outcome.value.raw = StartJson
    /\ outcome.value.positivePrompt = JStr("at the start")

\* The candidates that extractPrompts returned for, by their place in the scan
Extracted == {i \in 1..Len(mp4.seen) : mp4.seen[i].extracted # <<>>}

HasPrompt(i) ==
    \/ mp4.seen[i].extracted[1].positivePrompt # JStr("")
    \/ mp4.seen[i].extracted[1].negativePrompt # JStr("")

Least(S) == CHOOSE i \in S : \A j \in S : i <= j

\* The candidate the claimed preference picks among those of a set
Preferred(S) ==
    IF \E i \in S : "api" \in mp4.seen[i].flags /\ HasPrompt(i)
    THEN Least({i \in S : "api" \in mp4.seen[i].flags /\ HasPrompt(i)})
    ELSE IF \E i \in S : "api" \in mp4.seen[i].flags
         THEN Least({i \in S : "api" \in mp4.seen[i].flags})
         ELSE Least(S)

SaysPng == StartsWith(input.file.type, "image/png") \/ EndsWith(input.file.name, ".png")
SaysMp4 == StartsWith(input.file.type, "video/mp4") \/ EndsWith(input.file.name, ".mp4")

\* C15: a file declared a PNG image goes to parsePNG, one declared an MP4
\* video to parseMP4, and one declared neither fails with the "unsupported
\* file type" error before any of its bytes is read.
C15_Dispatch ==
    (input.entry = "parseComfyMetadata" /\ pc # "dispatch") =>
        /\ (SaysPng /\ ~SaysMp4) => caller = "parsePNG"
        /\ (SaysMp4 /\ ~SaysPng) => caller = "parseMP4"
        /\ (SaysPng /\ SaysMp4) => caller \in {"parsePNG", "parseMP4"}
        /\ caller = "parsePNG" => mp4 = NoScan
        /\ caller = "parseMP4" => buffer = <<>> /\ maxRead = -1
        /\ (~SaysPng /\ ~SaysMp4) =>
              /\ pc = "done" /\ outcome = Thrown(UnsupportedType)
              /\ buffer = <<>> /\ maxRead = -1 /\ walked = 0 /\ mp4 = NoScan

\* C15 witness: a JPEG was refused with nothing read
C15_Witness ==
    /\ input.entry = "parseComfyMetadata" /\ pc = "done"
    /\ input.file.type = "image/jpeg" /\ input.file.segs # <<>>
    /\ outcome = Thrown(UnsupportedType) /\ buffer = <<>>

\* The candidates that parsed
Parsed == {i \in 1..Len(mp4.seen) : mp4.seen[i].verdict \notin {"unmatched", "unparsed"}}

HasField(x, k) == x.t = "obj" /\ \E i \in 1..Len(x.v) : x.v[i][1] = k

\* The gate as claimed
PlausibleAsClaimed(v) ==
    \/ IsArr(Get(v, "nodes"))
    \/ \E k \in {"extra_data", "extra_pnginfo", "prompt", "workflow"} : HasField(v, k)
    \/ \E i \in 1..Len(v.v) : HasField(v.v[i][2], "inputs") \/ HasField(v.v[i][2], "class_type")

\* A top-level key that converts to a number, whose value has a truthy
\* inputs or class_type
NodeKey(v, i) ==
    /\ IsNumeric(v.v[i][1]) /\ v.v[i][2].t # "null"
    /\ Truthy(Get(v.v[i][2], "inputs")) \/ Truthy(Get(v.v[i][2], "class_type"))

\* The gate as amended
Plausible(v) ==
    \/ IsArr(Get(v, "nodes"))
    \/ /\ ~\E n \in 1..Len(v.v) :
             /\ IsNumeric(v.v[n][1]) /\ v.v[n][2].t = "null"
             /\ \A i \in 1..(n - 1) : ~NodeKey(v, i)
       /\ \/ \E k \in {"extra_pnginfo", "prompt", "workflow"} : Truthy(Get(v, k))
          \/ \E i \in 1..Len(v.v) : NodeKey(v, i)

\* C17 as claimed: a parsed candidate is accepted exactly when it has a nodes
\* array, or an extra_data, extra_pnginfo, prompt or workflow key, or a
\* top-level key of any name whose value has an inputs or class_type property;
\* what is returned is an accepted candidate.
C17_GateAnyKey ==
    Scanned =>
        /\ \A i \in Parsed : PassedGate(mp4.seen[i]) <=> PlausibleAsClaimed(mp4.seen[i].value)
        /\ (pc = "done" /\ ReturnedOk) =>
              \E i \in Parsed : PassedGate(mp4.seen[i]) /\ mp4.seen[i].raw = outcome.value.raw

\* C17 as amended: a parsed candidate is accepted exactly when it has a nodes
\* array, or else, unless a top-level numeric key with a null value comes
\* before every numeric key whose value has a truthy inputs or class_type, it
\* has a truthy extra_pnginfo, prompt or workflow field or such a numeric key;
\* what is returned is an accepted candidate.
C17_Gate ==
    Scanned =>
        /\ \A i \in Parsed : PassedGate(mp4.seen[i]) <=> Plausible(mp4.seen[i].value)
        /\ (pc = "done" /\ ReturnedOk) =>
              \E i \in Parsed : PassedGate(mp4.seen[i]) /\ mp4.seen[i].raw = outcome.value.raw

\* C17 witness: an object with nothing but an extra_data field was rejected
\* and the API-format graph after it accepted and returned
C17_Witness ==
    /\ Mp4Done /\ ReturnedOk /\ Len(mp4.seen) >= 2
    /\ mp4.seen[1].raw = ExtraDataJson /\ mp4.seen[1].verdict = "reject"
    /\ \E i \in Parsed : mp4.seen[i].flags = {"api"} /\ mp4.seen[i].raw = outcome.value.raw

\* The resolver has classified the value it was handed
Classified ==
    /\ input.entry = "extractPrompts"
    /\ pc \notin {"ep_unwrap", "ep_map"}
    /\ ~Threw

\* C21: a value with a nodes array is classified as UI format and its node
\* map is keyed by the id of each node; any other value is classified as API
\* format, with itself as node map, exactly when it is a non-array object; an
\* array is never classified as API format and no sampler is traced in it.
C21_Classification ==
    Classified =>
        /\ IsArr(Get(data, "nodes")) =>
              /\ ~isApiFormat
              /\ nodesMap = JObj(MapById(Get(data, "nodes").v, <<>>))
        /\ ~IsArr(Get(data, "nodes")) =>
              /\ isApiFormat <=> data.t = "obj"
              /\ isApiFormat => nodesMap = data
        /\ IsArr(data) => (~isApiFormat /\ samplers = <<>>)

\* The indices (0-based) of the character c in the text scanned
RECURSIVE IndicesOf(_, _, _)
IndicesOf(pieces, base, c) ==
    IF pieces = <<>> THEN {}
    ELSE {base + i - 1 : i \in {j \in 1..Len(Head(pieces).s) : Ch(Head(pieces).s, j) = c}}
            \cup IndicesOf(Tail(pieces), base + PieceLen(Head(pieces)), c)

Opening == IndicesOf(mp4.text, 0, "{")
Closing == IndicesOf(mp4.text, 0, "}")

\* The depth after the characters from..to: +1 for every {, -1 for every }
Depth(from, to) ==
    Cardinality({k \in Opening : from <= k /\ k <= to})
        - Cardinality({k \in Closing : from <= k /\ k <= to})

\* The positions at and after `from` where the depth is back to zero
ZeroAt(from) == {k \in Closing : k >= from /\ Depth(from, k) = 0}

\* The first of them within the bound, -1 if there is none
FirstZero(from, bound) ==
    IF \E k \in ZeroAt(from) : k < from + bound
    THEN Least({k \in ZeroAt(from) : k < from + bound}) ELSE -1

\* The scan has examined candidates and is between two of them, or at its end
BetweenCandidates == Scanned /\ pc \in {"mp4_loop", "done"}

\* C22: every anchor examined ends at the first position where the depth,
\* +1 for every { and -1 for every }, is back to zero; that position is less
\* than 10 MiB after the anchor; an anchor without one within the bound gives
\* no candidate, the anchors after it are examined all the same, and the scan
\* ends with the error only if no candidate gave a result.
C22_BraceMatching ==
    BetweenCandidates =>
        /\ \A i \in 1..Len(mp4.seen) :
              /\ mp4.seen[i].start = mp4.starts[i]
              /\ IF FirstZero(mp4.starts[i], BraceScanLimit) = -1
                 THEN mp4.seen[i].verdict = "unmatched" /\ mp4.seen[i].raw = ""
                 ELSE /\ mp4.seen[i].verdict # "unmatched"
                      /\ mp4.seen[i].raw =
                            Substring(mp4.text, 0, mp4.starts[i],
                                      FirstZero(mp4.starts[i], BraceScanLimit) + 1).s
                      /\ Len(mp4.seen[i].raw) <= BraceScanLimit
        /\ pc = "done" =>
              /\ Len(mp4.seen) = Len(mp4.starts)
                    \/ (ReturnedOk /\ outcome.value \in
                            {mp4.seen[Len(mp4.seen)].extracted[j] :
                                j \in 1..Len(mp4.seen[Len(mp4.seen)].extracted)})
              /\ Threw => /\ outcome = Thrown(NoMetadataMP4)
                          /\ \A i \in 1..Len(mp4.seen) : mp4.seen[i].extracted = <<>>

\* C22 witness: the braces of the first anchor close more than 10 MiB later,
\* it gave no candidate, and a later anchor gave the result
C22_Witness ==
    /\ Mp4Done /\ ReturnedOk
    /\ Len(mp4.seen) >= 2
    /\ mp4.seen[1].verdict = "unmatched"
    /\ ZeroAt(mp4.starts[1]) # {}
    /\ \E i \in 2..Len(mp4.seen) :
          /\ mp4.seen[i].verdict = "accept"
          /\ outcome.value.raw = mp4.seen[i].raw
          /\ Depth(mp4.starts[i] + 1, FirstZero(mp4.starts[i], BraceScanLimit) - 1) = 0
          /\ \E k \in Opening : mp4.starts[i] < k /\ k < FirstZero(mp4.starts[i], BraceScanLimit)

\* parsePNG is past the signature test and has not failed
Walking == input.entry = "parsePNG" /\ pc # "png_sig" /\ ~Threw /\ input.chunks # <<>>

\* The offset of the end of the n-th chunk of the file as it was built:
\* signature, then length, type, payload and CRC of every chunk
RECURSIVE Boundary(_)
Boundary(n) == IF n = 0 THEN 8 ELSE Boundary(n - 1) + 12 + input.chunks[n].len

\* The text of a chunk without the control characters it begins with
CandidateOf(text) ==
    IF \E k \in 1..Len(text) : Ch(text, k) \notin CtrlChars
    THEN SubSeq(text, CHOOSE k \in 1..Len(text) :
                          /\ Ch(text, k) \notin CtrlChars
                          /\ \A j \in 1..(k - 1) : Ch(text, j) \in CtrlChars,
                Len(text))
    ELSE ""

\* The candidates of the first n chunks of the file: the texts of the
\* qualifying chunks whose header and payload the buffer holds (a file cut
\* short may lack those of its last chunk)
RECURSIVE CandidatesOf(_)
CandidatesOf(n) ==
    IF n = 0 THEN <<>>
    ELSE CandidatesOf(n - 1)
            \o (IF Qualifying(input.chunks[n]) /\ Boundary(n) - 4 <= Len(buffer)
                THEN <<CandidateOf(input.chunks[n].text)>> ELSE <<>>)

\* C23: the cursor starts at 8 and after the n-th chunk, whatever its type,
\* it is at 8 plus the sum of 12 + L over the first n chunks; it grows with
\* every chunk, and the walk ends as soon as it has reached the length of the
\* buffer; the texts collected are those of the tEXt and iTXt chunks walked
\* whose keyword is prompt or workflow, in file order, and nothing else.
C23_ChunkWalk ==
    Walking =>
        /\ walked <= Len(input.chunks)
        /\ offset = Boundary(walked)
        /\ \A n \in 1..walked : Boundary(n - 1) < Boundary(n) /\ Boundary(n - 1) < Len(buffer)
        /\ pc # "png_walk" => offset >= Len(buffer)
        /\ foundText = CandidatesOf(walked)
        /\ (pc # "png_walk" /\ input.cut = 0) =>
              walked = Len(input.chunks) /\ offset = Len(buffer)

\* C23 witness: the walk of a whole file has passed chunks that are no text
\* chunks, a text chunk of another keyword or without separator, and has
\* collected the texts of a workflow and a prompt chunk in their order
C23_Witness ==
    /\ Walking /\ Whole /\ pc = "png_parse"
    /\ walked = 4
    /\ ~Qualifying(input.chunks[2]) /\ input.chunks[2].type = "tEXt"
    /\ Qualifying(input.chunks[3])
    /\ foundText = <<CandidateOf(input.chunks[3].text)>>
    /\ CandidateOf(input.chunks[3].text) # input.chunks[3].text

\* The innermost activation of resolveInput
TopFrame == stack[Len(stack)]

\* The value of the input it was asked to resolve
AskedValue == InputOf(TopFrame.node, TopFrame.inputName)

\* It has returned, its input is a link to a node of the map, and its cycle
\* test let it through
LinkCase ==
    /\ pc = "ri" /\ stack # <<>> /\ TopFrame.done
    /\ isApiFormat
    /\ Truthy(TopFrame.node)
    /\ ~VisitedHas(TopFrame.visited,
                   IF Truthy(Get(TopFrame.node, "id")) THEN Get(TopFrame.node, "id")
                   ELSE JStr(""))
    /\ IsArr(AskedValue) /\ Len(AskedValue.v) = 2
    /\ Truthy(LinkTarget(AskedValue))

\* The node the link points to
SourceNode == LinkTarget(AskedValue)

\* The positions in the priority list of the keys under which the source
\* node holds a string of at least minLen characters
TextKeysOf(node, minLen) ==
    {k \in 1..Len(TEXT_INPUT_KEYS) :
        /\ IsStr(InputOf(node, TEXT_INPUT_KEYS[k]))
        /\ Len(InputOf(node, TEXT_INPUT_KEYS[k]).v) >= minLen}

FirstTextOf(node, minLen) == InputOf(node, TEXT_INPUT_KEYS[Least(TextKeysOf(node, minLen))])

\* C24 as claimed: a link to a node that holds a string of any length under a
\* key of the priority list resolves to the string under the earliest such
\* key of the list, whatever the class_type of the node.
C24_TextKeyAnyLength ==
    (LinkCase /\ TextKeysOf(SourceNode, 0) # {}) => TopFrame.val = FirstTextOf(SourceNode, 0)

\* C24 as amended: a link to a node that holds a string of more than one
\* character under a key of the priority list resolves to the string of more
\* than one character under the earliest such key of the list, whatever the
\* class_type of the node.
C24_TextKey ==
    (LinkCase /\ TextKeysOf(SourceNode, 2) # {}) => TopFrame.val = FirstTextOf(SourceNode, 2)

\* C24 witness: the source node is a pass-through node that lists its keys
\* in another order than the priority list, and the string under the key
\* earlier in the list came back
C24_Witness ==
    /\ LinkCase
    /\ Cardinality(TextKeysOf(SourceNode, 2)) >= 2
    /\ IsPassThrough(LowerType(SourceNode))
    /\ ObjectKeys(Get(SourceNode, "inputs"))[1] # TEXT_INPUT_KEYS[Least(TextKeysOf(SourceNode, 2))]
    /\ TopFrame.val = FirstTextOf(SourceNode, 2)
    /\ TopFrame.val # InputOf(SourceNode, ObjectKeys(Get(SourceNode, "inputs"))[1])

\* The words that mark a pass-through node, and those that mark a combiner
PassWords == {"reroute", "primitive", "node", "pipe", "bus"}
CombineWords == {"combine", "concat", "average"}

TypeIn(node, words) == \E w \in words : Includes(LowerType(node), w)

IsLinkValue(v) == IsArr(v) /\ Len(v.v) = 2

\* A node that resolveInput looks into beyond its priority keys
Forwards(node) ==
    /\ Truthy(node) /\ TextKeysOf(node, 2) = {}
    /\ TypeIn(node, PassWords \cup CombineWords)

\* What an input value of a node comes to when it is resolved and no node it
\* links to forwards: a string is itself, a link to a node with text under a
\* priority key is that text, anything else is no value
OneStep(v) ==
    IF IsStr(v) THEN v
    ELSE IF IsLinkValue(v) /\ Truthy(LinkTarget(v)) /\ TextKeysOf(LinkTarget(v), 2) # {}
         THEN FirstTextOf(LinkTarget(v), 2)
         ELSE JNull

\* The source node has an inputs object none of whose values links to a
\* node that forwards
PlainInputs(node) ==
    /\ Get(node, "inputs").t = "obj"
    /\ \A i \in 1..Len(ObjectValues(Get(node, "inputs"))) :
          ~(IsLinkValue(ObjectValues(Get(node, "inputs"))[i])
              /\ Forwards(LinkTarget(ObjectValues(Get(node, "inputs"))[i])))

\* The nested calls on the source node are ended by the cycle test: its id is
\* in the visited set handed down
CutShort ==
    VisitedHas(TopFrame.visited \cup {AskedValue.v[1]},
               IF Truthy(Get(SourceNode, "id")) THEN Get(SourceNode, "id") ELSE JStr(""))

\* What the inputs of the source node resolve to, in key order
ResultsOf(node) ==
    [i \in 1..Len(ObjectValues(Get(node, "inputs"))) |->
        IF CutShort THEN JNull ELSE OneStep(ObjectValues(Get(node, "inputs"))[i])]

\* The link resolved leads to a pass-through node without a string under a
\* priority key
PassCase ==
    /\ LinkCase
    /\ TextKeysOf(SourceNode, 0) = {}
    /\ TypeIn(SourceNode, PassWords)

\* A nested call made from the pass-through loop of the activation below it
\* is a call on that activation's source node, for one of the keys of its
\* inputs, with the id of the source node added to the visited set
NestedFromPass(j) ==
    (stack[j - 1].stage = "pass") =>
        /\ stack[j].node = stack[j - 1].src
        /\ stack[j - 1].src = LinkTarget(InputOf(stack[j - 1].node, stack[j - 1].inputName))
        /\ \E i \in 1..Len(ObjectKeys(Get(stack[j].node, "inputs"))) :
              stack[j].inputName = ObjectKeys(Get(stack[j].node, "inputs"))[i]
        /\ stack[j].visited =
              stack[j - 1].visited \cup {InputOf(stack[j - 1].node, stack[j - 1].inputName).v[1]}

\* C25: a link to a pass-through node without text under the priority keys
\* resolves to the first non-empty result among the node's own inputs, taken
\* in key order and resolved with the node added to the visited set, and to
\* no value if there is none and the node is not also a combiner.
C25_PassThrough ==
    /\ (pc = "ri" /\ isApiFormat) => \A j \in 2..Len(stack) : NestedFromPass(j)
    /\ (PassCase /\ PlainInputs(SourceNode)) =>
          LET results == ResultsOf(SourceNode)
              hits == {i \in 1..Len(results) : Truthy(results[i])}
          IN  IF hits # {} THEN TopFrame.val = results[Least(hits)]
              ELSE ~TypeIn(SourceNode, CombineWords) => TopFrame.val = JNull

\* C25 witness: the first inputs of the pass-through node are a number, a
\* boolean, an object and arrays that are no links, and the link after them
\* gave the result
C25_Witness ==
    /\ PassCase /\ PlainInputs(SourceNode)
    /\ \E i \in 1..Len(ResultsOf(SourceNode)) :
          /\ i >= 4
          /\ \A j \in 1..(i - 1) : ~Truthy(ResultsOf(SourceNode)[j])
          /\ IsLinkValue(ObjectValues(Get(SourceNode, "inputs"))[i])
          /\ Truthy(ResultsOf(SourceNode)[i])
          /\ TopFrame.val = ResultsOf(SourceNode)[i]

\* An activation of resolveInput has returned
Resolved == pc = "ri" /\ stack # <<>> /\ TopFrame.done /\ Truthy(TopFrame.node)

\* It returned no value and made no nested call
NoValueAtOnce == TopFrame.val = JNull /\ TopFrame.stage = "enter"

\* The input is a link to a node of the map that holds no string of more
\* than one character under a priority key and whose class_type has neither
\* a pass-through nor a combiner word
UnknownTarget(v) ==
    /\ IsLinkValue(v) /\ Truthy(LinkTarget(v))
    /\ TextKeysOf(LinkTarget(v), 2) = {}
    /\ ~TypeIn(LinkTarget(v), PassWords \cup CombineWords)

\* C26: resolveInput returns no value, without a nested call, for a link to
\* a node that is not in the map, for a link to a node without text under
\* the priority keys whose class_type is neither pass-through nor combiner,
\* and for an input that is neither a string nor an array of two elements.
C26_NoBlindRecursion ==
    Resolved =>
        /\ (IsLinkValue(AskedValue) /\ ~Truthy(LinkTarget(AskedValue))) => NoValueAtOnce
        /\ UnknownTarget(AskedValue) => NoValueAtOnce
        /\ (~IsStr(AskedValue) /\ ~IsLinkValue(AskedValue)) => NoValueAtOnce

\* C26 witness: the node linked to is of an unknown type and one of its
\* inputs links to a text node; the call returned no value and the nesting
\* never went beyond it
C26_Witness ==
    /\ Resolved /\ UnknownTarget(AskedValue) /\ NoValueAtOnce
    /\ Len(stack) = 1 /\ maxDepth = 1
    /\ \E i \in 1..Len(ObjectValues(Get(LinkTarget(AskedValue), "inputs"))) :
          OneStep(ObjectValues(Get(LinkTarget(AskedValue), "inputs"))[i]) = JStr("foo")

\* The link resolved leads to a combiner whose inputs are strings, links to
\* text nodes or values that resolve to nothing
CombinerLinkCase ==
    /\ LinkCase
    /\ TypeIn(SourceNode, CombineWords)
    /\ PlainInputs(SourceNode)

\* What the input `name` of the combiner resolves to
Branch(name) == IF CutShort THEN JNull ELSE OneStep(InputOf(SourceNode, name))

\* The name pairs in the order in which the code tries them
NamePairs ==
    << <<"conditioning_1", "conditioning_2">>, <<"text_a", "text_b">>, <<"string_a", "string_b">> >>

BranchNames == {"conditioning_1", "conditioning_2", "text_a", "text_b", "string_a", "string_b"}

BothResolve(i) == Truthy(Branch(NamePairs[i][1])) /\ Truthy(Branch(NamePairs[i][2]))

Combined(i) == JStr(Branch(NamePairs[i][1]).v \o "\n\n" \o Branch(NamePairs[i][2]).v)

\* Exactly the branch n resolves
OnlyBranch(n) == Truthy(Branch(n)) /\ \A m \in BranchNames \ {n} : ~Truthy(Branch(m))

\* C27 as claimed: a link to a combiner resolves to first + blank line +
\* second when both branches of a name pair resolve to non-empty strings, be
\* they string literals on the combiner or links to other nodes; to the one
\* branch that resolves when exactly one does; and to no value when none does.
C27_CombinerAnyInputs ==
    CombinerLinkCase =>
        /\ \A i \in 1..Len(NamePairs) : BothResolve(i) => TopFrame.val = Combined(i)
        /\ \A n \in BranchNames : OnlyBranch(n) => TopFrame.val = Branch(n)
        /\ (\A n \in BranchNames : ~Truthy(Branch(n))) => ~Truthy(TopFrame.val)

\* The combiner holds no string of more than one character under a priority
\* key (text_a and text_b are priority keys) and is not also a pass-through
\* node
PureCombiner == TextKeysOf(SourceNode, 2) = {} /\ ~TypeIn(SourceNode, PassWords)

\* No branch of a pair tried before the i-th resolves
NoEarlierBranch(i) ==
    \A j \in 1..(i - 1) :
        ~Truthy(Branch(NamePairs[j][1])) /\ ~Truthy(Branch(NamePairs[j][2]))

\* C27 as amended: it does so when the combiner holds no string of more than
\* one character under a priority key and is not also a pass-through node,
\* and, for the pair, when no branch of a pair tried earlier resolves.
C27_Combiner ==
    (CombinerLinkCase /\ PureCombiner) =>
        /\ \A i \in 1..Len(NamePairs) :
              (BothResolve(i) /\ NoEarlierBranch(i)) => TopFrame.val = Combined(i)
        /\ \A n \in BranchNames : OnlyBranch(n) => TopFrame.val = Branch(n)
        /\ (\A n \in BranchNames : ~Truthy(Branch(n))) => ~Truthy(TopFrame.val)

\* C27 witness: string literals under string_a and string_b of the combiner
\* itself came back joined by a blank line
C27_Witness ==
    /\ CombinerLinkCase /\ PureCombiner
    /\ IsStr(InputOf(SourceNode, "string_a")) /\ IsStr(InputOf(SourceNode, "string_b"))
    /\ BothResolve(3) /\ NoEarlierBranch(3)
    /\ TopFrame.val = JStr("foo\n\nbar")

\* The texts of the metadata chunks as parsePNG collects them
Candidates == CandidatesOf(Len(input.chunks))

\* A text that parses as a JSON value that is no array and has no nodes
\* field: an API-format graph or a wrapper
SuchText(t) ==
    /\ JsonParse(t).ok
    /\ ~IsArr(JsonParse(t).v) /\ ~IsNullish(JsonParse(t).v)
    /\ Get(JsonParse(t).v, "nodes") = JUndef

FirstWhere(texts, P(_)) ==
    texts[CHOOSE i \in 1..Len(texts) : P(texts[i]) /\ \A j \in 1..(i - 1) : ~P(texts[j])]

BeginsWithBrace(t) == StartsWith(t, "{")

\* C28: when a metadata chunk of a whole PNG holds a text that parses as a
\* JSON value that is no array and has no nodes field, parsePNG returns the
\* first such text as raw, also when a text with nodes comes before it in
\* the file; when there is none, it returns the first text that begins with
\* a brace.
C28_SelectionOrder ==
    (Done /\ Whole) =>
        IF \E i \in 1..Len(Candidates) : SuchText(Candidates[i])
        THEN ReturnedOk /\ outcome.value.raw = FirstWhere(Candidates, SuchText)
        ELSE (\E i \in 1..Len(Candidates) : BeginsWithBrace(Candidates[i]))
                => (ReturnedOk /\ outcome.value.raw = FirstWhere(Candidates, BeginsWithBrace))


\* The two windows of a file at or above the full-scan limit, each decoded by
\* itself
StartWindow == Joined(DecodeSegs(FileSlice(input.file.segs, 0, SCAN_CHUNK_SIZE)), <<>>)
EndWindow ==
    Joined(DecodeSegs(FileSlice(input.file.segs, FileSize(input.file.segs) - SCAN_CHUNK_SIZE,
                                FileSize(input.file.segs))), <<>>)

Within(pieces, s) == \E i \in 1..Len(pieces) : Includes(pieces[i].s, s)

Windowed == Mp4Done /\ FileSize(input.file.segs) >= FILE_LIMIT_FOR_FULL_SCAN

InOneWindow(raw) == Within(StartWindow, raw) \/ Within(EndWindow, raw)

\* The braces opened in a are not closed in it
Unclosed(a) ==
    \A j \in 1..Len(a) :
        Cardinality({k \in 1..j : Ch(a, k) = "{"}) > Cardinality({k \in 1..j : Ch(a, k) = "}"})

\* raw is the end of the start window followed by the start of the end
\* window, and its braces are not closed before the start window ends
AcrossSeam(raw) ==
    \E k \in 1..(Len(raw) - 1) :
        /\ StartWindow # <<>> /\ EndWindow # <<>>
        /\ EndsWith(StartWindow[Len(StartWindow)].s, Mid(raw, 1, k))
        /\ StartsWith(EndWindow[1].s, Mid(raw, k + 1, Len(raw)))
        /\ Unclosed(Mid(raw, 1, k))

\* C29 as claimed: of a file at or above the full-scan limit, every raw string
\* returned is a contiguous substring of the decoded start window or of the
\* decoded end window; text of the two windows is never spliced.
C29_NoSeamSpan == (Windowed /\ ReturnedOk) => InOneWindow(outcome.value.raw)

\* C29 as amended: every raw string returned is a contiguous substring of the
\* decoded start window followed by the decoded end window; it lies within one
\* window unless it begins in the start window and its braces are not closed
\* before that window ends, and then it is the end of the start window
\* followed by the start of the end window.
C29_SeamSpan ==
    (Windowed /\ ReturnedOk) =>
        InOneWindow(outcome.value.raw) \/ AcrossSeam(outcome.value.raw)

\* C29 witness: the object returned is made of the last text of the start
\* window and the first text of the end window, and is in neither
C29_Witness ==
    /\ Windowed /\ ReturnedOk
    /\ outcome.value.raw = SeamHead \o SeamTail
    /\ outcome.value.positivePrompt = JStr("spliced text")
    /\ ~InOneWindow(outcome.value.raw)
    /\ AcrossSeam(outcome.value.raw)


\* The project of the state that p names as its parent, as a set
ParentOf(p) == {q \in Ids(projects) : q.id = p.parentId}

\* The projects reached from p by following parentId at most n times
RECURSIVE Upwards(_, _)
Upwards(S, n) ==
    IF n = 0 THEN S ELSE Upwards(S \cup UNION {ParentOf(p) : p \in S}, n - 1)

\* Following parentId from p reaches a root
ReachesRoot(p) == \E q \in Upwards({p}, Len(projects)) : q.parentId = NoParent

\* p is among the projects above itself
OwnAncestor(p) == p \in Upwards(ParentOf(p), Len(projects))

\* C30: the folder tree stays acyclic. After any calls of handleMoveProject,
\* handleCreateProject and handleDeleteProject, following parentId from any
\* project of the state reaches a root, a project whose parentId is null.
C30_FolderTree == \A p \in Ids(projects) : ReachesRoot(p)

====
